---------------------------- MODULE Spec2Model ----------------------------
(***************************************************************************)
(* Model of build-comic.py: the offline build of the document model        *)
(* (pages, toc, pageMap) and the viewer's navigation state machine that is *)
(* generated into index.html (the JavaScript inside get_template).         *)
(*                                                                         *)
(* Strings are TLA+ strings; a character is a string of length 1.          *)
(* state.zoom is kept as the exact IEEE 754 double (see JavaScript numbers);*)
(* the pan offsets are integers, the viewer adds only +50 and -50 to them. *)
(***************************************************************************)
EXTENDS Integers, Sequences, FiniteSets, TLC

VARIABLES
    cfg,          \* which assembled document model (CONFIG) the page embeds
    pc,           \* "boot" before the inline script ran, then "run"
    state,        \* let state = {page, zoom, fitMode, translateX, translateY}
    store,        \* localStorage item 'ba_viewer': a blob, or NoBlob
    storeOK,      \* whether localStorage getItem/setItem work (else they throw)
    imgSrc,       \* img.src
    tocHidden,    \* body has class 'toc-hidden'
    open,         \* positions of the .toc-chapter elements with class 'open'
    activeCh,     \* positions of the .toc-chapter elements with class 'active-ch'
    active,       \* <<chapter, section>> of the .toc-section elements with class 'active'
    breadcrumb,   \* [bc, cp, pt]: text of #breadcrumb, #currentPage, #pageTotal
    fsElement,    \* document.fullscreenElement is set (native fullscreen is on)
    fsAvailable,  \* el.requestFullscreen exists
    pendingReq,   \* requestFullscreen promises not settled yet
    cleanMode,    \* body has class 'clean-mode'
    showUiHtml,   \* documentElement has class 'show-ui'
    showUiBody,   \* body has class 'show-ui'
    uiTimeout,    \* let uiTimeout: id of the timer showUI armed last, 0 if none
    timers,       \* ids of the pending setTimeout timers
    last,         \* the event handled last (history, for stating the properties)
    folder,       \* the book folder: [toc_txt, toc_json], <<>> for a missing file
    bpc,          \* where the build is: "load_toc", "lines", "raised", "done"
    lineNo,       \* parse_toc_txt: lines of toc.txt the loop has consumed
    chapters,     \* parse_toc_txt: chapters
    cur_book,     \* parse_toc_txt: cur_book, <<>> for None, else <<n>>
    cur_ch,       \* parse_toc_txt: position in chapters of cur_ch, 0 for None
    raised,       \* the exception that ended the build, "" if none
    toc,          \* build: toc as load_toc returned it
    toc_source,   \* build: toc_source, "None" when load_toc returned (None, None)
    dirs,         \* the folder's directories: [pages, webp, own], <<>> for a
                  \* missing directory, else <<its entries in iterdir order>>
    images,       \* build: images
    img_folder,   \* build: img_folder, "pages", "webp" or "" (the folder itself)
    index_html,   \* the config written into index.html: <<>> or <<config>>
    returned      \* what build returned: "", "False" or "True"

navVars == <<cfg, pc, state, store, storeOK, imgSrc, tocHidden, open, activeCh,
             active, breadcrumb>>
immVars == <<fsElement, fsAvailable, pendingReq, cleanMode, showUiHtml,
             showUiBody, uiTimeout, timers>>
vars == <<cfg, pc, state, store, storeOK, imgSrc, tocHidden, open, activeCh,
          active, breadcrumb, fsElement, fsAvailable, pendingReq, cleanMode,
          showUiHtml, showUiBody, uiTimeout, timers, last, folder, bpc,
          lineNo, chapters, cur_book, cur_ch, raised, toc, toc_source,
          dirs, images, img_folder, index_html, returned>>

catVars == <<dirs, images, img_folder, index_html, returned>>

buildVars == <<folder, bpc, lineNo, chapters, cur_book, cur_ch, raised, toc,
               toc_source, catVars>>

(***************************************************************************)
(* Bounds of the model.                                                    *)
(***************************************************************************)
MaxZoomSteps == 1   \* zoom values are followed up to MaxZoomSteps button steps from 1
MaxPan == 1         \* pan events are followed up to MaxPan steps from (0,0)
MaxPending == 2     \* fullscreen requests in flight at once
MaxTimers == 2      \* timer ids the model hands out are 1 .. MaxTimers + 1
MaxZoomCalls == 4   \* calls zoom(.15), zoom(-.15) in a row from a zoom input

(***************************************************************************)
(* Strings.                                                                *)
(***************************************************************************)
Char(s, i) == SubSeq(s, i, i)

Digits == "0123456789"

IsDigit(c) == \E i \in 1..10 : Char(Digits, i) = c

DigitVal(c) == CHOOSE d \in 0..9 : Char(Digits, d + 1) = c

AllDigits(s) == Len(s) > 0 /\ \A i \in 1..Len(s) : IsDigit(Char(s, i))

\* JS unary + / parseInt, Python int(), on a run of decimal digits
RECURSIVE ToInt(_)
ToInt(s) ==
    IF Len(s) = 0 THEN 0
    ELSE 10 * ToInt(SubSeq(s, 1, Len(s) - 1)) + DigitVal(Char(s, Len(s)))

\* JS String(n), Python str(n), for n >= 0
RECURSIVE ToStr(_)
ToStr(n) ==
    IF n < 10 THEN Char(Digits, n + 1)
    ELSE ToStr(n \div 10) \o Char(Digits, (n % 10) + 1)

\* String(n).padStart(2,'0') in the viewer, f"{n:02d}" in the build
padStart2(s) ==
    IF Len(s) >= 2 THEN s
    ELSE IF Len(s) = 1 THEN "0" \o s
    ELSE "00"

\* s.includes(sub)
Includes(s, sub) ==
    \E i \in 1..(Len(s) - Len(sub) + 1) : SubSeq(s, i, i + Len(sub) - 1) = sub

Positions(s, c) == {i \in 1..Len(s) : Char(s, i) = c}

Max(S) == CHOOSE x \in S : \A y \in S : y <= x

Min(S) == CHOOSE x \in S : \A y \in S : x <= y


(***************************************************************************)
(* Python strings (the build).  Whitespace is the space character.         *)
(***************************************************************************)
Lowercase == "abcdefghijklmnopqrstuvwxyz"

Uppercase == "ABCDEFGHIJKLMNOPQRSTUVWXYZ"

\* c.upper() for one character
upperChar(c) ==
    IF \E i \in 1..26 : Char(Lowercase, i) = c
    THEN Char(Uppercase, CHOOSE i \in 1..26 : Char(Lowercase, i) = c)
    ELSE c

\* s.upper()
RECURSIVE upper(_)
upper(s) ==
    IF Len(s) = 0 THEN ""
    ELSE upperChar(Char(s, 1)) \o upper(SubSeq(s, 2, Len(s)))

\* c.lower() for one character
lowerChar(c) ==
    IF \E i \in 1..26 : Char(Uppercase, i) = c
    THEN Char(Lowercase, CHOOSE i \in 1..26 : Char(Uppercase, i) = c)
    ELSE c

\* s.lower()
RECURSIVE lower(_)
lower(s) ==
    IF Len(s) = 0 THEN ""
    ELSE lowerChar(Char(s, 1)) \o lower(SubSeq(s, 2, Len(s)))

\* the characters of file names, in code order
Ascii == " -.0123456789ABCDEFGHIJKLMNOPQRSTUVWXYZ_abcdefghijklmnopqrstuvwxyz"

\* the rank of a character in code order
ord(c) == CHOOSE i \in 1..Len(Ascii) : Char(Ascii, i) = c

\* a < b for str
RECURSIVE strLess(_, _)
strLess(a, b) ==
    IF Len(b) = 0 THEN FALSE
    ELSE IF Len(a) = 0 THEN TRUE
    ELSE IF Char(a, 1) # Char(b, 1) THEN ord(Char(a, 1)) < ord(Char(b, 1))
    ELSE strLess(SubSeq(a, 2, Len(a)), SubSeq(b, 2, Len(b)))

\* s.startswith(prefix)
startswith(s, prefix) ==
    Len(s) >= Len(prefix) /\ SubSeq(s, 1, Len(prefix)) = prefix

\* s.strip()
strip(s) ==
    LET keep == {i \in 1..Len(s) : Char(s, i) # " "}
    IN  IF keep = {} THEN "" ELSE SubSeq(s, Min(keep), Max(keep))

\* s.rstrip(chars)
rstrip(s, chars) ==
    LET keep == {i \in 1..Len(s) : ~Includes(chars, Char(s, i))}
    IN  IF keep = {} THEN "" ELSE SubSeq(s, 1, Max(keep))

\* s.split(sep) for a separator of one character
RECURSIVE split(_, _)
split(s, sep) ==
    LET at == Positions(s, sep)
    IN  IF at = {} THEN <<s>>
        ELSE <<SubSeq(s, 1, Min(at) - 1)>>
             \o split(SubSeq(s, Min(at) + 1, Len(s)), sep)

\* s.split(): the runs of non-whitespace characters
RECURSIVE splitWords(_)
splitWords(s) ==
    LET t == strip(s)
        sp == Positions(t, " ")
    IN  IF t = "" THEN <<>>
        ELSE IF sp = {} THEN <<t>>
        ELSE <<SubSeq(t, 1, Min(sp) - 1)>>
             \o splitWords(SubSeq(t, Min(sp) + 1, Len(t)))

\* s.isdigit()
isdigit(s) == AllDigits(s)

\* int(s) for a string without whitespace: <<n>>, or <<>> when int raises
\* ValueError; a sign may precede the digits
int(s) ==
    IF AllDigits(s) THEN <<ToInt(s)>>
    ELSE IF Len(s) > 1 /\ Char(s, 1) = "+" /\ AllDigits(SubSeq(s, 2, Len(s)))
    THEN <<ToInt(SubSeq(s, 2, Len(s)))>>
    ELSE IF Len(s) > 1 /\ Char(s, 1) = "-" /\ AllDigits(SubSeq(s, 2, Len(s)))
    THEN <<0 - ToInt(SubSeq(s, 2, Len(s)))>>
    ELSE <<>>

\* str(n)
str(n) == IF n < 0 THEN "-" \o ToStr(0 - n) ELSE ToStr(n)

(***************************************************************************)
(* JavaScript numbers.  state.zoom is an IEEE 754 double; the doubles      *)
(* between 1/16 and 8 are all multiples of 2^-56, and the double x is kept *)
(* exactly as <<hi, lo>> with x = (hi * 2^30 + lo) * 2^-56, 0 <= lo < 2^30.*)
(***************************************************************************)
Limb == 2^30

dLess(a, b) == a[1] < b[1] \/ (a[1] = b[1] /\ a[2] < b[2])

\* the exact sum and difference (a >= b) of two doubles
dSum(a, b) ==
    LET lo == a[2] + b[2]
    IN  IF lo >= Limb THEN <<a[1] + b[1] + 1, lo - Limb>>
        ELSE <<a[1] + b[1], lo>>

dDiff(a, b) ==
    LET lo == a[2] - b[2]
    IN  IF lo < 0 THEN <<a[1] - b[1] - 1, lo + Limb>>
        ELSE <<a[1] - b[1], lo>>

\* the distance between neighbouring doubles at x, in units of 2^-56
dUlp(x) ==
    IF x[1] >= 2^28 THEN 64
    ELSE IF x[1] >= 2^27 THEN 32
    ELSE IF x[1] >= 2^26 THEN 16
    ELSE IF x[1] >= 2^25 THEN 8
    ELSE IF x[1] >= 2^24 THEN 4
    ELSE IF x[1] >= 2^23 THEN 2
    ELSE 1

\* rounding of an exact result to a double: to nearest, ties to even
dRound(x) ==
    LET u == dUlp(x)
        r == x[2] % u
        q == x[2] \div u
        up == 2 * r > u \/ (2 * r = u /\ q % 2 = 1)
        lo == x[2] - r + (IF up THEN u ELSE 0)
    IN  IF lo = Limb THEN <<x[1] + 1, 0>> ELSE <<x[1], lo>>

\* the JS expression x + d for a double x and a literal d = [neg, mag]
jsAdd(x, d) ==
    IF d.neg THEN dRound(dDiff(x, d.mag)) ELSE dRound(dSum(x, d.mag))

\* the literals of the viewer: 1, .25, 5, .15, -.15, .1, -.1
One == <<2^26, 0>>

Quarter == <<2^24, 0>>

Five == <<5 * 2^26, 0>>

Lit15 == <<10066329, 644245094>>

Lit10 == <<6710886, 429496730>>

Plus15 == [neg |-> FALSE, mag |-> Lit15]

Minus15 == [neg |-> TRUE, mag |-> Lit15]

Plus10 == [neg |-> FALSE, mag |-> Lit10]

Minus10 == [neg |-> TRUE, mag |-> Lit10]

(***************************************************************************)
(* Build (Python): the document model embedded as CONFIG.                  *)
(***************************************************************************)

\* Path(im).stem: the file name without its last suffix
Stem(name) ==
    LET dots == {i \in Positions(name, ".") : i > 1 /\ i < Len(name)}
    IN  IF dots = {} THEN name ELSE SubSeq(name, 1, Max(dots) - 1)

\* f"{n:02d}" for n >= 0
Fmt02d(n) == padStart2(ToStr(n))

\* parse_toc_txt, CH branch: the chapter a CH line opens in book b
NewChapter(b, ch_num, ch_name) ==
    LET ch_ref == str(b) \o "-" \o Fmt02d(ch_num)
        toc_ref == ch_ref \o "-01"
    IN  [ref |-> ch_ref, number |-> ch_num, name |-> ch_name, toc |-> toc_ref,
         sections |-> <<>>]

\* a section branch that writes the page number without zero padding
AddSectionLo_NoPad(ch, page_num, sec_name, los) ==
    LET page_ref == ch.ref \o "-" \o ToStr(page_num)
        sec == IF los # <<>>
               THEN [name |-> sec_name, page |-> page_ref, lo |-> los]
               ELSE [name |-> sec_name, page |-> page_ref]
    IN  [ch EXCEPT !.sections = Append(@, sec)]

\* parse_toc_txt, section branch: cur_ch['sections'].append(sec) on the
\* chapter ch, sec['lo'] being set only when los is not empty
AddSectionLo(ch, page_num, sec_name, los) ==
    LET page_ref == ch.ref \o "-" \o Fmt02d(page_num)
        sec == IF los # <<>>
               THEN [name |-> sec_name, page |-> page_ref, lo |-> los]
               ELSE [name |-> sec_name, page |-> page_ref]
    IN  [ch EXCEPT !.sections = Append(@, sec)]

\* a section line without learning outcomes
AddSection(ch, page_num, sec_name) == AddSectionLo(ch, page_num, sec_name, <<>>)

\* a parser that splits the line at '|' without stripping the fields
tokens_NoStrip(raw) ==
    LET line == strip(raw)
        clean == rstrip(line, " !~")
        parts == split(clean, "|")
    IN  [line |-> line, parts |-> parts, words |-> splitWords(parts[1])]

\* parse_toc_txt: line, parts and parts[0].split() of the raw line
tokens(raw) ==
    LET line == strip(raw)
        clean == rstrip(line, " !~")
        cells == split(clean, "|")
        parts == [i \in 1..Len(cells) |-> strip(cells[i])]
    IN  [line |-> line, parts |-> parts, words |-> splitWords(parts[1])]

\* parse_toc_txt: the line is skipped (empty or a comment)
isSkipped(t) == t.line = "" \/ startswith(t.line, "#")

\* parse_toc_txt: the line takes the BOOK branch
isBookLine(t) == ~isSkipped(t) /\ startswith(upper(t.parts[1]), "BOOK")

\* parse_toc_txt: the line takes the CH branch
isChLine(t) ==
    ~isSkipped(t) /\ ~isBookLine(t) /\ startswith(upper(t.parts[1]), "CH")

\* parse_toc_txt: the line reaches the section test
isOtherLine(t) == ~isSkipped(t) /\ ~isBookLine(t) /\ ~isChLine(t)

\* BOOK branch: [exc, book], exc the exception int(parts[0].split()[1]) raises
bookOf(t) ==
    IF Len(t.words) < 2 THEN [exc |-> "IndexError", book |-> <<>>]
    ELSE IF int(t.words[2]) = <<>> THEN [exc |-> "ValueError", book |-> <<>>]
    ELSE [exc |-> "", book |-> int(t.words[2])]

\* CH branch up to "if cur_book is None": [exc, book, num, name], book being
\* <<>> for a token without hyphen
chOf(t) ==
    LET token == t.words[2]
        ch_name == IF Len(t.parts) > 1 THEN t.parts[2] ELSE ""
        bc == split(token, "-")
        fail(e) == [exc |-> e, book |-> <<>>, num |-> 0, name |-> ch_name]
    IN  IF Len(t.words) < 2 THEN fail("IndexError")
        ELSE IF Includes(token, "-")
        THEN IF Len(bc) # 2 \/ int(bc[1]) = <<>> \/ int(bc[2]) = <<>>
             THEN fail("ValueError")
             ELSE [exc |-> "", book |-> int(bc[1]), num |-> int(bc[2])[1],
                   name |-> ch_name]
        ELSE IF int(token) = <<>> THEN fail("ValueError")
        ELSE [exc |-> "", book |-> <<>>, num |-> int(token)[1],
              name |-> ch_name]

\* the non-empty stripped items of lo_str.split(',')
RECURSIVE nonEmpty(_)
nonEmpty(items) ==
    IF items = <<>> THEN <<>>
    ELSE IF strip(Head(items)) # ""
    THEN <<strip(Head(items))>> \o nonEmpty(Tail(items))
    ELSE nonEmpty(Tail(items))

\* section branch: [page_num, sec_name, los] of a line whose parts[0].isdigit()
secOf(t) ==
    LET page_num == ToInt(t.parts[1])
        lo_str == IF Len(t.parts) > 2 THEN t.parts[3] ELSE ""
    IN  [page_num |-> page_num,
         sec_name |-> IF Len(t.parts) > 1 THEN t.parts[2]
                      ELSE "Page " \o str(page_num),
         los |-> IF lo_str # "" THEN nonEmpty(split(lo_str, ",")) ELSE <<>>]

\* parse_toc_txt: chapters, cur_book, cur_ch before the loop
ParserStart == [chapters |-> <<>>, cur_book |-> <<>>, cur_ch |-> 0, raised |-> ""]

\* parse_toc_txt, BOOK branch on the registers p
bookBranch(p, t) ==
    IF bookOf(t).exc # "" THEN [p EXCEPT !.raised = bookOf(t).exc]
    ELSE [p EXCEPT !.cur_book = bookOf(t).book]

\* parse_toc_txt, CH branch on the registers p
chBranch(p, t) ==
    LET r == chOf(t)
        book == IF r.book # <<>> THEN r.book ELSE p.cur_book
    IN  IF r.exc # "" THEN [p EXCEPT !.raised = r.exc]
        ELSE IF book = <<>> THEN p
        ELSE [p EXCEPT !.cur_book = book,
                       !.chapters = Append(@, NewChapter(book[1], r.num, r.name)),
                       !.cur_ch = Len(p.chapters) + 1]

\* parse_toc_txt, the section test and the section branch on the registers p
sectionBranch(p, t) ==
    IF p.cur_ch # 0 /\ isdigit(t.parts[1])
    THEN [p EXCEPT !.chapters[p.cur_ch] =
             AddSectionLo(@, secOf(t).page_num, secOf(t).sec_name, secOf(t).los)]
    ELSE p

\* parse_toc_txt: the body of the loop for one line
loopBody(p, t) ==
    IF isSkipped(t) THEN p
    ELSE IF isBookLine(t) THEN bookBranch(p, t)
    ELSE IF isChLine(t) THEN chBranch(p, t)
    ELSE sectionBranch(p, t)

\* parse_toc_txt: the loop over lines[i..], ended by the first exception
RECURSIVE parseFrom(_, _, _)
parseFrom(p, lines, i) ==
    IF i > Len(lines) \/ p.raised # "" THEN p
    ELSE parseFrom(loopBody(p, tokens(lines[i])), lines, i + 1)

\* parse_toc_txt on a toc.txt of these lines: the registers at the end of the
\* loop (chapters empty: the function returns None)
parse_toc_txt(lines) == parseFrom(ParserStart, lines, 1)

\* dict.get(key, default) on a record
get(d, key, default) == IF key \in DOMAIN d THEN d[key] ELSE default

\* a flattening that ignores the chapter's own toc field
flatEntry_DefaultToc(b, ch) ==
    LET ch_ref == str(b) \o "-" \o Fmt02d(ch.number)
    IN  [ref |-> ch_ref, number |-> ch.number, name |-> get(ch, "name", ""),
         toc |-> ch_ref \o "-01",
         sections |-> get(ch, "sections", <<>>)]

\* load_toc: one entry of flat, for a chapter ch of a book numbered b
flatEntry(b, ch) ==
    LET ch_ref == str(b) \o "-" \o Fmt02d(ch.number)
    IN  [ref |-> ch_ref, number |-> ch.number, name |-> get(ch, "name", ""),
         toc |-> get(ch, "toc", ch_ref \o "-01"),
         sections |-> get(ch, "sections", <<>>)]

\* load_toc: flat, the chapters of the books of data in order
RECURSIVE flatten(_)
flatten(data) ==
    IF data = <<>> THEN <<>>
    ELSE LET book == Head(data)
             b == get(book, "book", 0)
             chs == get(book, "chapters", <<>>)
         IN  [i \in 1..Len(chs) |-> flatEntry(b, chs[i])] \o flatten(Tail(data))

\* build: img_prefix and images_full, for the images ims found in the
\* directory sub ("" for the folder itself)
images_full(sub, ims) ==
    LET img_prefix == IF sub # "" THEN sub \o "/" ELSE ""
    IN  [i \in 1..Len(ims) |-> img_prefix \o ims[i]]

\* a page map that counts the images from 1
page_map_FromOne(ims) ==
    [st \in {Stem(ims[i]) : i \in 1..Len(ims)} |->
        Max({i \in 1..Len(ims) : Stem(ims[i]) = st})]

\* build: page_map[stem] = i for every image, a later image overwriting an
\* earlier one with the same stem (indices are 0-based)
page_map(ims) ==
    [st \in {Stem(ims[i]) : i \in 1..Len(ims)} |->
        Max({i \in 1..Len(ims) : Stem(ims[i]) = st}) - 1]

\* build: config = {'pages': images_full, 'toc': toc, 'pageMap': page_map};
\* toc None (no outline) is the empty sequence
build(sub, ims, outline) ==
    [pages |-> images_full(sub, ims), toc |-> outline,
     pageMap |-> page_map(ims)]

\* IMG_EXTENSIONS
IMG_EXTENSIONS == {".jpg", ".jpeg", ".png", ".webp", ".gif"}

\* Path(name).suffix
suffix(name) ==
    LET dots == {i \in Positions(name, ".") : i > 1 /\ i < Len(name)}
    IN  IF dots = {} THEN "" ELSE SubSeq(name, Max(dots), Len(name))

\* re.split(r'(\d+)', s): text, digits, text, ..., text
RECURSIVE reSplitDigits(_)
reSplitDigits(s) ==
    LET digs == {i \in 1..Len(s) : IsDigit(Char(s, i))}
    IN  IF digs = {} THEN <<s>>
        ELSE LET a == Min(digs)
                 rest == {i \in a..Len(s) : ~IsDigit(Char(s, i))}
                 b == IF rest = {} THEN Len(s) + 1 ELSE Min(rest)
             IN  <<SubSeq(s, 1, a - 1), SubSeq(s, a, b - 1)>>
                     \o reSplitDigits(SubSeq(s, b, Len(s)))

\* a sort key that keeps the case of the text
natural_sort_key_NoLower(s) ==
    LET cs == reSplitDigits(s)
    IN  [i \in 1..Len(cs) |-> IF isdigit(cs[i]) THEN ToInt(cs[i]) ELSE cs[i]]

\* natural_sort_key(s): the odd items are str, the even items int
natural_sort_key(s) ==
    LET cs == reSplitDigits(s)
    IN  [i \in 1..Len(cs) |-> IF isdigit(cs[i]) THEN ToInt(cs[i])
                               ELSE lower(cs[i])]

\* a < b for two keys (lists compare item by item, a proper prefix is less)
RECURSIVE keyLess(_, _, _)
keyLess(a, b, i) ==
    IF i > Len(b) THEN FALSE
    ELSE IF i > Len(a) THEN TRUE
    ELSE IF a[i] = b[i] THEN keyLess(a, b, i + 1)
    ELSE IF i % 2 = 0 THEN a[i] < b[i]
    ELSE strLess(a[i], b[i])

\* sorted(names, key=natural_sort_key), name x put into the sorted list done:
\* the sort is stable, x goes behind the names that are not greater
RECURSIVE insertSorted(_, _)
insertSorted(done, x) ==
    IF done = <<>> THEN <<x>>
    ELSE IF keyLess(natural_sort_key(x), natural_sort_key(Head(done)), 1)
    THEN <<x>> \o done
    ELSE <<Head(done)>> \o insertSorted(Tail(done), x)

\* sorted(names, key=natural_sort_key)
RECURSIVE sorted(_)
sorted(names) ==
    IF names = <<>> THEN <<>>
    ELSE insertSorted(sorted(SubSeq(names, 1, Len(names) - 1)),
                      names[Len(names)])

\* a listing that takes every file for an image
RECURSIVE imgsOf_AnyFile(_)
imgsOf_AnyFile(entries) ==
    IF entries = <<>> THEN <<>>
    ELSE (IF Head(entries).is_file THEN <<Head(entries).name>> ELSE <<>>)
             \o imgsOf_AnyFile(Tail(entries))

\* find_images: [f.name for f in d.iterdir() if f.is_file() and
\* f.suffix.lower() in IMG_EXTENSIONS], an entry being [name, is_file]
RECURSIVE imgsOf(_)
imgsOf(entries) ==
    IF entries = <<>> THEN <<>>
    ELSE (IF Head(entries).is_file
             /\ lower(suffix(Head(entries).name)) \in IMG_EXTENSIONS
          THEN <<Head(entries).name>> ELSE <<>>) \o imgsOf(Tail(entries))

\* find_images(folder): <<images, the directory they are in>>
find_images(d) ==
    IF d.pages # <<>> /\ imgsOf(d.pages[1]) # <<>>
    THEN <<sorted(imgsOf(d.pages[1])), "pages">>
    ELSE IF d.webp # <<>> /\ imgsOf(d.webp[1]) # <<>>
    THEN <<sorted(imgsOf(d.webp[1])), "webp">>
    ELSE <<sorted(imgsOf(d.own[1])), "">>

(***************************************************************************)
(* The catalogs and outlines the model is run on.  Images are listed in    *)
(* the order find_images returns them (natural order).                     *)
(***************************************************************************)
Ch_Intro == AddSection(NewChapter(1, 1, "Intro"), 3, "Middle")

Ch_304 ==
    AddSection(AddSection(AddSection(AddSection(
        NewChapter(3, 4, "Fractions"), 1, "Start"), 3, "Halves"),
        11, "Thirds"), 18, "Review")

Ch_305 == AddSection(NewChapter(3, 5, "Decimals"), 2, "Tenths")

\* two CH lines with the same ref, and refs that are not in the catalog
Ch_DupA == AddSection(NewChapter(1, 1, "A"), 2, "A two")

Ch_DupB == AddSection(NewChapter(1, 1, "B"), 5, "B five")

Ch_Absent == AddSection(NewChapter(1, 3, "C"), 1, "C one")

Ch_Odd == AddSection(NewChapter(1, 1, "Odd"), 2, "Two")

Configs ==
    << \* 1: the end-to-end example of the specification
       build("pages",
             <<"1-01-01.webp", "1-01-02.webp", "1-01-03.webp", "1-01-04.webp",
               "1-01-05.webp">>,
             <<Ch_Intro>>),
       \* 2: no outline, images in the folder itself
       build("", <<"a.png", "b.png", "c.png">>, <<>>),
       \* 3: chapter 3-04 with sections at pages 01, 03, 11, 18
       build("pages",
             <<"3-04-01.webp", "3-04-03.webp", "3-04-11.webp", "3-04-15.webp",
               "3-04-18.webp", "3-05-01.webp", "3-05-02.webp">>,
             <<Ch_304, Ch_305>>),
       \* 4: duplicate chapter refs and unresolved references
       build("webp",
             <<"1-01-01.jpg", "1-01-02.jpg", "1-02-01.jpg">>,
             <<Ch_DupA, Ch_DupB, Ch_Absent>>),
       \* 5: unpadded stem, multi-digit book, stem that does not decode
       build("pages",
             <<"1-01-01.webp", "1-1-2.webp", "2-01-01.webp", "11-01-05.webp",
               "cover.webp">>,
             <<Ch_Odd>>),
       \* 6: no outline; books 1 and 11, two unpadded stems of chapter 1-01
       build("pages",
             <<"1-01-01.webp", "1-1-2.webp", "1-1-3.webp", "11-01-01.webp">>,
             <<>>) >>

CONFIG == Configs[cfg]

NumPages == Len(CONFIG.pages)

(***************************************************************************)
(* Viewer (JavaScript in get_template): reference codec and lookups, for   *)
(* the document model c (CONFIG).                                          *)
(***************************************************************************)
NoRef == [ok |-> FALSE, book |-> 0, chapter |-> 0, page |-> 0, ref |-> ""]

\* getRef(idx): the page's path without directory and extension
getRef(c, idx) ==
    LET path == c.pages[idx + 1]
        slashes == Positions(path, "/")
        base == IF slashes = {} THEN path
                ELSE SubSeq(path, Max(slashes) + 1, Len(path))
        dots == {i \in Positions(base, ".") : i < Len(base)}
    IN  IF dots = {} THEN base ELSE SubSeq(base, 1, Max(dots) - 1)

\* parseRef(ref): ref.match(/^(\d+)-(\d+)-(\d+)$/), null when it does not match
parseRef(ref) ==
    LET dashes == Positions(ref, "-")
    IN  IF Cardinality(dashes) # 2 THEN NoRef
        ELSE LET d1 == Min(dashes)
                 d2 == Max(dashes)
                 m1 == SubSeq(ref, 1, d1 - 1)
                 m2 == SubSeq(ref, d1 + 1, d2 - 1)
                 m3 == SubSeq(ref, d2 + 1, Len(ref))
             IN  IF AllDigits(m1) /\ AllDigits(m2) /\ AllDigits(m3)
                 THEN [ok |-> TRUE, book |-> ToInt(m1), chapter |-> ToInt(m2),
                       page |-> ToInt(m3), ref |-> ref]
                 ELSE NoRef

\* a reference without the padding of chapter and page
makeRef_NoPad(b, ch, p) == ToStr(b) \o "-" \o ToStr(ch) \o "-" \o ToStr(p)

\* makeRef(b, c, p)
makeRef(b, ch, p) ==
    ToStr(b) \o "-" \o padStart2(ToStr(ch)) \o "-" \o padStart2(ToStr(p))

chRef(p) == ToStr(p.book) \o "-" \o padStart2(ToStr(p.chapter))

\* CONFIG.toc?.find(x => x.ref === ref): position of the first match, 0 if none
findChapter(c, ref) ==
    LET hits == {k \in 1..Len(c.toc) : c.toc[k].ref = ref}
    IN  IF hits = {} THEN 0 ELSE Min(hits)

\* CONFIG.pageMap[ref] ?? 0
pageMapOr0(c, ref) == IF ref \in DOMAIN c.pageMap THEN c.pageMap[ref] ELSE 0

(***************************************************************************)
(* Viewer: persisted state.                                                *)
(***************************************************************************)
NoBlob == [none |-> TRUE]

\* let state = { page: 0, zoom: 1, fitMode: 'height', translateX: 0, translateY: 0 }
DefaultState ==
    [page |-> 0, zoom |-> One, fitMode |-> "height", translateX |-> 0,
     translateY |-> 0]

\* the startup read without try / catch around it being of any use: the blob
\* is taken whether or not getItem works
loadState_NoCatch(st, ok) == IF st # NoBlob THEN st ELSE DefaultState

\* try { s = localStorage.getItem('ba_viewer'); if (s) Object.assign(state, JSON.parse(s)) } catch(e) {}
loadState(st, ok) == IF ok /\ st # NoBlob THEN st ELSE DefaultState

\* The view: the navigation state with the store and the DOM the handlers
\* write, as one record v, so that a handler is a composition of functions.
View ==
    [state |-> state, store |-> store, imgSrc |-> imgSrc,
     tocHidden |-> tocHidden, open |-> open, activeCh |-> activeCh,
     active |-> active, breadcrumb |-> breadcrumb]

SetView(v) ==
    /\ state' = v.state
    /\ store' = v.store
    /\ imgSrc' = v.imgSrc
    /\ tocHidden' = v.tocHidden
    /\ open' = v.open
    /\ activeCh' = v.activeCh
    /\ active' = v.active
    /\ breadcrumb' = v.breadcrumb

\* try { localStorage.setItem('ba_viewer', JSON.stringify(state)) } catch(e) {}
saveState(v) == IF storeOK THEN [v EXCEPT !.store = v.state] ELSE v

(***************************************************************************)
(* Viewer: breadcrumb and outline highlight.                               *)
(***************************************************************************)
\* updateBreadcrumb with the page label 'p.' + p.page for every page
breadcrumbAt_NoContents(c, page) ==
    LET p == parseRef(getRef(c, page))
    IN  IF ~p.ok
        THEN [bc |-> "", ref |-> "", cp |-> ToStr(page + 1),
              pt |-> "/ " \o ToStr(Len(c.pages))]
        ELSE LET chapter == findChapter(c, chRef(p))
                 chLabel == IF chapter # 0
                            THEN "Ch" \o ToStr(p.chapter) \o ": "
                                 \o c.toc[chapter].name
                            ELSE "Ch " \o ToStr(p.chapter)
             IN  [bc |-> chLabel, ref |-> chRef(p), cp |-> "p." \o ToStr(p.page),
                  pt |-> "/ " \o ToStr(Len(c.pages))]

\* updateBreadcrumb with state.page = page: bc is the label of the chapter
\* span ("" when there is no span), ref its data-ref, cp and pt the texts of
\* #currentPage and #pageTotal
breadcrumbAt(c, page) ==
    LET p == parseRef(getRef(c, page))
    IN  IF ~p.ok
        THEN [bc |-> "", ref |-> "", cp |-> ToStr(page + 1),
              pt |-> "/ " \o ToStr(Len(c.pages))]
        ELSE LET chapter == findChapter(c, chRef(p))
                 chLabel == IF chapter # 0
                            THEN "Ch" \o ToStr(p.chapter) \o ": "
                                 \o c.toc[chapter].name
                            ELSE "Ch " \o ToStr(p.chapter)
                 pageLabel == IF p.page = 1 THEN "Contents"
                              ELSE "p." \o ToStr(p.page)
                 chPrefix == chRef(p) \o "-"
                 chPages == Cardinality({i \in 1..Len(c.pages) :
                                Includes(c.pages[i], chPrefix)})
             IN  [bc |-> chLabel, ref |-> chRef(p), cp |-> pageLabel,
                  pt |-> "/ " \o ToStr(chPages)]

\* renderTOC: data-idx of the heading of chapter k
chIdx(c, k) == pageMapOr0(c, c.toc[k].toc)

\* renderTOC with the data-idx of a section taken from the chapter's anchor
sIdx_ChapterAnchor(c, k, j) == pageMapOr0(c, c.toc[k].toc)

\* renderTOC: data-idx of section j of chapter k
sIdx(c, k, j) == pageMapOr0(c, c.toc[k].sections[j].page)

\* renderTOC: the .toc-section elements <<k, j>> in document order
RECURSIVE tocSections(_, _)
tocSections(c, k) ==
    IF k > Len(c.toc) THEN <<>>
    ELSE [j \in 1..Len(c.toc[k].sections) |-> <<k, j>>]
         \o tocSections(c, k + 1)

\* updateTOCHighlight, second loop, with dist = idx - state.page: the nearest
\* section at or after the page
RECURSIVE nearestSection_After(_, _, _, _, _, _)
nearestSection_After(c, els, i, page, ref, best) ==
    IF i > Len(els) THEN best
    ELSE LET el == els[i]
             dist == sIdx(c, el[1], el[2]) - page
             take == /\ dist >= 0
                     /\ (best = <<>> \/ dist < best[2])
                     /\ ref # ""
                     /\ c.toc[el[1]].ref = ref
         IN  nearestSection_After(c, els, i + 1, page, ref,
                                      IF take THEN <<el, dist>> ELSE best)

\* updateTOCHighlight, second loop from element i on: best is <<>> (bestDist
\* is Infinity) or <<el, bestDist>>
RECURSIVE nearestSection(_, _, _, _, _, _)
nearestSection(c, els, i, page, ref, best) ==
    IF i > Len(els) THEN best
    ELSE LET el == els[i]
             dist == page - sIdx(c, el[1], el[2])
             take == /\ dist >= 0
                     /\ (best = <<>> \/ dist < best[2])
                     /\ ref # ""
                     /\ c.toc[el[1]].ref = ref
         IN  nearestSection(c, els, i + 1, page, ref,
                            IF take THEN <<el, dist>> ELSE best)

\* updateTOCHighlight with state.page = page: the chapters left with the
\* classes 'open' and 'active-ch', the sections left with 'active'
highlightAt(c, page) ==
    LET p == parseRef(getRef(c, page))
        ref == IF p.ok THEN chRef(p) ELSE ""
        cur == {k \in 1..Len(c.toc) : ref # "" /\ c.toc[k].ref = ref}
        best == nearestSection(c, tocSections(c, 1), 1, page, ref, <<>>)
    IN  [open |-> cur, activeCh |-> cur,
         active |-> IF best = <<>> THEN {} ELSE {best[1]}]

\* what the two functions give for every page of every document model
BreadcrumbTable ==
    [ci \in 1..Len(Configs) |->
        [page \in 0..(Len(Configs[ci].pages) - 1) |->
            breadcrumbAt(Configs[ci], page)]]

HighlightTable ==
    [ci \in 1..Len(Configs) |->
        [page \in 0..(Len(Configs[ci].pages) - 1) |->
            highlightAt(Configs[ci], page)]]

IdxTable ==
    [ci \in 1..Len(Configs) |->
        [k \in 1..Len(Configs[ci].toc) |->
            [ch |-> chIdx(Configs[ci], k),
             s |-> [j \in 1..Len(Configs[ci].toc[k].sections) |->
                       sIdx(Configs[ci], k, j)]]]]

updateBreadcrumb(v) ==
    [v EXCEPT !.breadcrumb = BreadcrumbTable[cfg][v.state.page]]

updateTOCHighlight(v) ==
    LET h == HighlightTable[cfg][v.state.page]
    IN  [v EXCEPT !.open = h.open, !.activeCh = h.activeCh, !.active = h.active]

(***************************************************************************)
(* Viewer: transitions.                                                    *)
(***************************************************************************)
resetTransform(st) == [st EXCEPT !.zoom = One, !.translateX = 0, !.translateY = 0]

\* loadPage without the test idx < 0
loadPage_NoLowerBound(v, idx) ==
    IF idx >= NumPages THEN v
    ELSE IF idx < 0
    THEN saveState([v EXCEPT !.state = resetTransform([v.state EXCEPT !.page = idx]),
                             !.imgSrc = "undefined"])
    ELSE saveState(updateTOCHighlight(updateBreadcrumb(
            [v EXCEPT !.state = resetTransform([v.state EXCEPT !.page = idx]),
                      !.imgSrc = CONFIG.pages[idx + 1]])))

\* loadPage without state.zoom = 1; state.translateX = state.translateY = 0
loadPage_KeepTransform(v, idx) ==
    IF idx < 0 \/ idx >= NumPages THEN v
    ELSE saveState(updateTOCHighlight(updateBreadcrumb(
            [v EXCEPT !.state.page = idx, !.imgSrc = CONFIG.pages[idx + 1]])))

\* loadPage without the call of saveState()
loadPage_NoSave(v, idx) ==
    IF idx < 0 \/ idx >= NumPages THEN v
    ELSE updateTOCHighlight(updateBreadcrumb(
            [v EXCEPT !.state = resetTransform([v.state EXCEPT !.page = idx]),
                      !.imgSrc = CONFIG.pages[idx + 1]]))

loadPage(v, idx) ==
    IF idx < 0 \/ idx >= NumPages THEN v
    ELSE saveState(updateTOCHighlight(updateBreadcrumb(
            [v EXCEPT !.state = resetTransform([v.state EXCEPT !.page = idx]),
                      !.imgSrc = CONFIG.pages[idx + 1]])))

\* setFitMode that resets zoom and pan only when the mode changes
setFitMode_ResetOnChange(v, mode) ==
    IF v.state.fitMode = mode THEN saveState(v)
    ELSE saveState([v EXCEPT !.state = resetTransform([v.state EXCEPT !.fitMode = mode])])

setFitMode(v, mode) ==
    saveState([v EXCEPT !.state = resetTransform([v.state EXCEPT !.fitMode = mode])])

\* Math.min(5, z + delta), without the lower limit
zoomTo_NoMax(z, delta) ==
    LET sum == jsAdd(z, delta)
    IN  IF dLess(Five, sum) THEN Five ELSE sum

\* Math.max(.25, Math.min(5, z + delta))
zoomTo(z, delta) ==
    LET sum == jsAdd(z, delta)
        lo == IF dLess(Five, sum) THEN Five ELSE sum
    IN  IF dLess(lo, Quarter) THEN Quarter ELSE lo

\* zoom(delta)
zoom(v, delta) == [v EXCEPT !.state.zoom = zoomTo(@, delta)]

\* pan(dx, dy) without the test state.zoom > 1
pan_Unguarded(v, dx, dy) ==
    <<TRUE, [v EXCEPT !.state.translateX = @ + dx,
                      !.state.translateY = @ + dy]>>

\* pan(dx, dy): <<applied, view>>
pan(v, dx, dy) ==
    IF dLess(One, v.state.zoom)
    THEN <<TRUE, [v EXCEPT !.state.translateX = @ + dx,
                           !.state.translateY = @ + dy]>>
    ELSE <<FALSE, v>>

\* toggleTOC testing if (show) for if (show === true): false toggles
toggleTOC_Truthy(v, show) ==
    IF show = "true" THEN [v EXCEPT !.tocHidden = FALSE]
    ELSE [v EXCEPT !.tocHidden = ~@]

\* toggleTOC(show): show is "true", "false" or "" (no argument)
toggleTOC(v, show) ==
    IF show = "true" THEN [v EXCEPT !.tocHidden = FALSE]
    ELSE IF show = "false" THEN [v EXCEPT !.tocHidden = TRUE]
    ELSE [v EXCEPT !.tocHidden = ~@]

(***************************************************************************)
(* Viewer: startup and the navigation events.                              *)
(***************************************************************************)
Ev(op, arg, load) == [op |-> op, arg |-> arg, load |-> load]

\* pages a stored blob may name: one is beyond every catalog of the model
\* (the key 'ba_viewer' is shared by every viewer of the origin)
StoredBlobs ==
    {[page |-> pg, zoom |-> One, fitMode |-> fm, translateX |-> 0,
      translateY |-> 0] : pg \in {0, 2, 7}, fm \in {"height", "width"}}

\* the blob in a store whose getItem and setItem throw
UnreadableBlobs == {b \in StoredBlobs : b.page = 2 /\ b.fitMode = "width"}

\* the deep-link token of location.hash: <<>> when absent, else <<n>>
HashTokens == {<<>>} \cup {<<n>> : n \in {0, 2, NumPages, NumPages + 1}}

\* The viewer runs in a page the build has written: the build is over.
Built ==
    /\ folder = [toc_txt |-> <<>>, toc_json |-> <<>>]
    /\ bpc = "done"
    /\ lineNo = 0
    /\ chapters = <<>>
    /\ cur_book = <<>>
    /\ cur_ch = 0
    /\ raised = ""
    /\ toc = <<>>
    /\ toc_source = "None"
    /\ dirs = [pages |-> <<>>, webp |-> <<>>, own |-> <<>>]
    /\ images = <<>>
    /\ img_folder = ""
    /\ index_html = <<>>
    /\ returned = "True"

InitNav ==
    /\ cfg \in 1..Len(Configs)
    /\ pc = "boot"
    /\ state = DefaultState
    /\ storeOK \in BOOLEAN
    /\ store \in (IF storeOK THEN StoredBlobs \cup {NoBlob}
                  ELSE UnreadableBlobs \cup {NoBlob})
    /\ imgSrc = ""
    /\ tocHidden = TRUE
    /\ open = {}
    /\ activeCh = {}
    /\ active = {}
    /\ breadcrumb = [bc |-> "", ref |-> "", cp |-> "1", pt |-> ""]
    /\ last = Ev("none", <<>>, <<>>)

InitImm ==
    /\ fsElement = FALSE
    /\ pendingReq = 0
    /\ cleanMode = FALSE
    /\ showUiHtml = FALSE
    /\ showUiBody = FALSE
    /\ uiTimeout = 0
    /\ timers = {}

\* The inline script up to the deep link: the state is read from the store,
\* renderTOC() builds the outline, setFitMode(state.fitMode), and a deep link
\* sets state.page.  arg keeps the token and the index read from the store.
Boot(tok) ==
    /\ pc = "boot"
    /\ LET st0 == loadState(store, storeOK)
           v1 == setFitMode([View EXCEPT !.state = st0], st0.fitMode)
           v2 == IF tok # <<>> THEN [v1 EXCEPT !.state.page = tok[1] - 1]
                 ELSE v1
       IN  /\ SetView(v2)
           /\ last' = Ev("boot", <<tok, st0.page>>, <<>>)
    /\ pc' = "init"
    /\ UNCHANGED <<cfg, storeOK>>
    /\ UNCHANGED immVars
    /\ UNCHANGED buildVars

\* The end of the inline script: loadPage(state.page), and the hashchange
\* handler is installed.
InitLoad ==
    /\ pc = "init"
    /\ SetView(loadPage(View, state.page))
    /\ last' = Ev("init", last.arg, <<state.page>>)
    /\ pc' = "run"
    /\ UNCHANGED <<cfg, storeOK>>
    /\ UNCHANGED immVars
    /\ UNCHANGED buildVars

\* an event handler of the running viewer that ends with the view v
Handle(op, arg, load, v) ==
    /\ pc = "run"
    /\ SetView(v)
    /\ last' = Ev(op, arg, load)
    /\ UNCHANGED <<cfg, pc, storeOK>>
    /\ UNCHANGED immVars
    /\ UNCHANGED buildVars

SidePrev ==
    Handle("sidePrev", <<>>, <<state.page - 1>>, loadPage(View, state.page - 1))

SideNext ==
    Handle("sideNext", <<>>, <<state.page + 1>>, loadPage(View, state.page + 1))

FitButton(mode) == Handle("fit", <<mode>>, <<>>, setFitMode(View, mode))

PanStep == 50

Abs(x) == IF x < 0 THEN 0 - x ELSE x

\* the deltas the viewer calls zoom with
ZoomDeltas == {Plus15, Minus15, Plus10, Minus10}

\* the zoom values within n calls zoom(d), d in D, of the values in S
RECURSIVE ZoomReach(_, _, _)
ZoomReach(S, D, n) ==
    IF n = 0 THEN S
    ELSE ZoomReach(S \cup {zoomTo(z, d) : z \in S, d \in D}, D, n - 1)

\* the zoom values the events are followed to: up to MaxZoomSteps steps of
\* the zoom buttons from 1, and one step of the wheel from 1
ZoomWindow ==
    ZoomReach({One}, {Plus15, Minus15}, MaxZoomSteps)
        \cup ZoomReach({One}, {Plus10, Minus10}, 1)

InZoomBound(z) == z \in ZoomWindow

InPanBound(v) ==
    Abs(v.state.translateX) + Abs(v.state.translateY) <= PanStep * MaxPan

ZoomIn ==
    /\ InZoomBound(zoomTo(state.zoom, Plus15))
    /\ Handle("zoomIn", <<>>, <<>>, zoom(View, Plus15))

ZoomOut ==
    /\ InZoomBound(zoomTo(state.zoom, Minus15))
    /\ Handle("zoomOut", <<>>, <<>>, zoom(View, Minus15))

\* Ctrl+wheel: zoom(e.deltaY > 0 ? -.1 : .1)
Wheel(deltaYPositive) ==
    LET delta == IF deltaYPositive THEN Minus10 ELSE Plus10
    IN  /\ InZoomBound(zoomTo(state.zoom, delta))
        /\ Handle("wheel", <<deltaYPositive>>, <<>>, zoom(View, delta))

\* img.ondblclick
DblClick ==
    Handle("dblclick", <<>>, <<>>, [View EXCEPT !.state = resetTransform(@)])

TocToggle == Handle("tocToggle", <<>>, <<>>, toggleTOC(View, ""))

TocClose == Handle("tocClose", <<>>, <<>>, toggleTOC(View, "false"))

\* showPageInput, done(): loadPage(parseInt(inp.value) - 1), for the integers
\* n the input may hold
PageInput(n) ==
    Handle("pageInput", <<n>>, <<n - 1>>, loadPage(View, n - 1))

\* window.onhashchange with a token #page=n
HashChange(n) ==
    Handle("hashchange", <<n>>, <<n - 1>>, loadPage(View, n - 1))

\* touchstart/touchend: a quick horizontal swipe, dx > 0 or not, at zoom 1
Swipe(dxPositive) ==
    LET idx == state.page + (IF dxPositive THEN 0 - 1 ELSE 1)
    IN  /\ state.zoom = One
        /\ Handle("swipe", <<dxPositive>>, <<idx>>, loadPage(View, idx))

\* a keydown handler without the Ctrl/Meta branch: zoomed, Ctrl+Arrow pans
KeyArrowLeftRight_NoCtrlBranch(left, ctrl) ==
    LET key == IF left THEN "ArrowLeft" ELSE "ArrowRight"
        idx == state.page + (IF left THEN 0 - 1 ELSE 1)
        panned == pan(View, IF left THEN PanStep ELSE 0 - PanStep, 0)[2]
    IN  IF dLess(One, state.zoom)
        THEN /\ InPanBound(panned)
             /\ Handle("keydown", <<key, ctrl>>, <<>>, panned)
        ELSE Handle("keydown", <<key, ctrl>>, <<idx>>, loadPage(View, idx))

\* keydown ArrowLeft / ArrowRight, with or without Ctrl/Meta: Ctrl+Arrow
\* always changes the page; zoomed, the arrows pan; else they change the page
KeyArrowLeftRight(left, ctrl) ==
    LET key == IF left THEN "ArrowLeft" ELSE "ArrowRight"
        idx == state.page + (IF left THEN 0 - 1 ELSE 1)
        panned == pan(View, IF left THEN PanStep ELSE 0 - PanStep, 0)[2]
    IN  IF ~ctrl /\ dLess(One, state.zoom)
        THEN /\ InPanBound(panned)
             /\ Handle("keydown", <<key, ctrl>>, <<>>, panned)
        ELSE Handle("keydown", <<key, ctrl>>, <<idx>>, loadPage(View, idx))

\* keydown ArrowUp / ArrowDown: zoomed, they pan; else scrollPage(), which
\* moves the scroll position only
KeyArrowUpDown(up) ==
    LET key == IF up THEN "ArrowUp" ELSE "ArrowDown"
        panned == pan(View, 0, IF up THEN PanStep ELSE 0 - PanStep)[2]
    IN  IF dLess(One, state.zoom)
        THEN /\ InPanBound(panned)
             /\ Handle("keydown", <<key, FALSE>>, <<>>, panned)
        ELSE Handle("keydown", <<key, FALSE>>, <<>>, View)

\* keydown PageUp / PageDown
KeyPageUpDown(up) ==
    LET key == IF up THEN "PageUp" ELSE "PageDown"
        idx == state.page + (IF up THEN 0 - 1 ELSE 1)
    IN  Handle("keydown", <<key, FALSE>>, <<idx>>, loadPage(View, idx))

\* keydown Home / End
KeyHomeEnd(home) ==
    LET key == IF home THEN "Home" ELSE "End"
        idx == IF home THEN 0 ELSE NumPages - 1
    IN  Handle("keydown", <<key, FALSE>>, <<idx>>, loadPage(View, idx))

\* keydown h / w
KeyFit(mode) ==
    Handle("keydown", <<IF mode = "height" THEN "h" ELSE "w", FALSE>>, <<>>,
           setFitMode(View, mode))

\* keydown t
KeyT == Handle("keydown", <<"t", FALSE>>, <<>>, toggleTOC(View, ""))

\* click on an outline chapter heading
ChapterClick(k) ==
    LET wasOpen == k \in open
        v1 == [View EXCEPT !.open = IF ~wasOpen THEN {k} ELSE @ \ {k}]
    IN  Handle("chapterClick", <<k>>, <<IdxTable[cfg][k].ch>>,
               toggleTOC(loadPage(v1, IdxTable[cfg][k].ch), "false"))

\* click on an outline section
SectionClick(k, j) ==
    Handle("sectionClick", <<k, j>>, <<IdxTable[cfg][k].s[j]>>,
           toggleTOC(loadPage(View, IdxTable[cfg][k].s[j]), "false"))

\* without an outline renderTOC lists ranges of 20 pages; click on the one
\* that starts at index i
RangeClick(i) ==
    /\ Len(CONFIG.toc) = 0
    /\ Handle("rangeClick", <<i>>, <<i>>,
              toggleTOC(loadPage(View, i), "false"))

\* click on the chapter span of the breadcrumb
BreadcrumbClick ==
    LET ref == breadcrumb.ref \o "-01"
    IN  /\ breadcrumb.bc # ""
        /\ IF ref \in DOMAIN CONFIG.pageMap
           THEN Handle("breadcrumbClick", <<>>, <<CONFIG.pageMap[ref]>>,
                       loadPage(View, CONFIG.pageMap[ref]))
           ELSE Handle("breadcrumbClick", <<>>, <<>>, View)

NextNav ==
    \/ \E tok \in HashTokens : Boot(tok)
    \/ InitLoad
    \/ SidePrev
    \/ SideNext
    \/ \E mode \in {"height", "width"} : FitButton(mode)
    \/ ZoomIn
    \/ ZoomOut
    \/ \E b \in BOOLEAN : Wheel(b)
    \/ DblClick
    \/ TocToggle
    \/ TocClose
    \/ \E n \in 0..(NumPages + 1) : PageInput(n)
    \/ \E n \in 0..(NumPages + 1) : HashChange(n)
    \/ \E b \in BOOLEAN : Swipe(b)
    \/ \E left \in BOOLEAN, ctrl \in BOOLEAN : KeyArrowLeftRight(left, ctrl)
    \/ \E up \in BOOLEAN : KeyArrowUpDown(up)
    \/ \E up \in BOOLEAN : KeyPageUpDown(up)
    \/ \E home \in BOOLEAN : KeyHomeEnd(home)
    \/ \E mode \in {"height", "width"} : KeyFit(mode)
    \/ KeyT
    \/ \E k \in 1..Len(CONFIG.toc) : ChapterClick(k)
    \/ \E k \in 1..Len(CONFIG.toc) :
          \E j \in 1..Len(CONFIG.toc[k].sections) : SectionClick(k, j)
    \/ \E i \in {x \in 0..(NumPages - 1) : x % 20 = 0} : RangeClick(i)
    \/ BreadcrumbClick

\* the navigation events without the zoom, pan and fit-mode controls
NextOutline ==
    \/ \E tok \in HashTokens : Boot(tok)
    \/ InitLoad
    \/ SidePrev
    \/ SideNext
    \/ TocToggle
    \/ TocClose
    \/ \E n \in 0..(NumPages + 1) : PageInput(n)
    \/ \E n \in 0..(NumPages + 1) : HashChange(n)
    \/ \E b \in BOOLEAN : Swipe(b)
    \/ \E left \in BOOLEAN, ctrl \in BOOLEAN : KeyArrowLeftRight(left, ctrl)
    \/ \E up \in BOOLEAN : KeyPageUpDown(up)
    \/ \E home \in BOOLEAN : KeyHomeEnd(home)
    \/ KeyT
    \/ \E k \in 1..Len(CONFIG.toc) : ChapterClick(k)
    \/ \E k \in 1..Len(CONFIG.toc) :
          \E j \in 1..Len(CONFIG.toc[k].sections) : SectionClick(k, j)
    \/ \E i \in {x \in 0..(NumPages - 1) : x % 20 = 0} : RangeClick(i)
    \/ BreadcrumbClick

\* the document models the navigation specification is run on
NavConfigs == {2, 4}

\* Navigation, zoom, pan, fit mode and persistence.
Init == InitNav /\ cfg \in NavConfigs /\ InitImm /\ fsAvailable = TRUE /\ Built

Spec == Init /\ [][NextNav]_vars

\* Navigation, outline and breadcrumb on every document model.
InitOutline == InitNav /\ InitImm /\ fsAvailable = TRUE /\ Built

SpecOutline == InitOutline /\ [][NextOutline]_vars

(***************************************************************************)
(* The transition functions zoom, pan, setFitMode and toggleTOC on their   *)
(* own: the running viewer in a state drawn from the inputs below, and one *)
(* action per call of a function.                                          *)
(***************************************************************************)
\* 2 and 4.95
Two == <<2^27, 0>>

Lit495 == <<332188876, 858993472>>

\* the values of state.zoom the calls start from
ZoomInputs == {One, Quarter, Five, Two, Lit495}

ZoomCallWindow ==
    ZoomReach(ZoomInputs, {Plus15, Minus15}, MaxZoomCalls)
        \cup ZoomReach(ZoomInputs, ZoomDeltas, MaxZoomSteps)

InitTransitions ==
    /\ cfg = 2
    /\ pc = "run"
    /\ state \in [page : {1}, zoom : ZoomInputs, fitMode : {"height", "width"},
                  translateX : {0}, translateY : {0}]
    /\ storeOK = TRUE
    /\ store = NoBlob
    /\ imgSrc = CONFIG.pages[state.page + 1]
    /\ tocHidden \in BOOLEAN
    /\ open = HighlightTable[cfg][state.page].open
    /\ activeCh = HighlightTable[cfg][state.page].activeCh
    /\ active = HighlightTable[cfg][state.page].active
    /\ breadcrumb = BreadcrumbTable[cfg][state.page]
    /\ fsElement = FALSE
    /\ fsAvailable = FALSE
    /\ pendingReq = 0
    /\ cleanMode \in BOOLEAN
    /\ showUiHtml = FALSE
    /\ showUiBody = FALSE
    /\ uiTimeout = 0
    /\ timers = {}
    /\ last = Ev("none", <<>>, <<>>)
    /\ Built

\* zoom(delta); arg: the delta
CallZoom(delta) ==
    /\ zoomTo(state.zoom, delta) \in ZoomCallWindow
    /\ Handle("zoom", <<delta>>, <<>>, zoom(View, delta))

\* pan(dx, dy); arg: dx, dy and what the call returns
CallPan(dx, dy) ==
    LET r == pan(View, dx, dy)
    IN  /\ InPanBound(r[2])
        /\ Handle("pan", <<dx, dy, r[1]>>, <<>>, r[2])

\* setFitMode(mode); arg: the mode, and the fit mode and zoom before the call
CallSetFitMode(mode) ==
    Handle("setFitMode", <<mode, state.fitMode, state.zoom>>, <<>>,
           setFitMode(View, mode))

\* toggleTOC(show); arg: show, and whether the panel was hidden before the call
CallToggleTOC(show) ==
    Handle("toggleTOC", <<show, tocHidden>>, <<>>, toggleTOC(View, show))

NextTransitions ==
    \/ \E delta \in ZoomDeltas : CallZoom(delta)
    \/ \E d \in {<<PanStep, 0>>, <<0 - PanStep, 0>>, <<0, PanStep>>,
                 <<0, 0 - PanStep>>} : CallPan(d[1], d[2])
    \/ \E mode \in {"height", "width"} : CallSetFitMode(mode)
    \/ \E show \in {"true", "false", ""} : CallToggleTOC(show)

SpecTransitions == InitTransitions /\ [][NextTransitions]_vars

(***************************************************************************)
(* Viewer: the zoom from startup on, followed to the limits .25 and 5, and  *)
(* what saveState() writes meanwhile.  The store holds any blob, also one  *)
(* with a zoom outside the limits (the key 'ba_viewer' is shared by the    *)
(* origin).                                                                *)
(***************************************************************************)
\* 7
Seven == <<7 * 2^26, 0>>

ZoomBlobs ==
    {[page |-> pg, zoom |-> z, fitMode |-> fm, translateX |-> 50,
      translateY |-> 0] : pg \in {0, 7}, z \in {Seven, Lit10},
                          fm \in {"height", "width"}}

InitZoom ==
    /\ cfg = 2
    /\ pc = "boot"
    /\ state = DefaultState
    /\ storeOK = TRUE
    /\ store \in ZoomBlobs \cup {NoBlob}
    /\ imgSrc = ""
    /\ tocHidden = TRUE
    /\ open = {}
    /\ activeCh = {}
    /\ active = {}
    /\ breadcrumb = [bc |-> "", ref |-> "", cp |-> "1", pt |-> ""]
    /\ last = Ev("none", <<>>, <<>>)
    /\ InitImm
    /\ fsAvailable = TRUE
    /\ Built

MaxZoomRun == 28    \* clicks of one zoom button in a row that are followed

\* the zoom values the events are followed to: runs of one zoom button from
\* 1 to the limit and beyond, and from there one step of any kind
ZoomRuns ==
    ZoomReach(ZoomReach({One}, {Plus15}, MaxZoomRun)
                  \cup ZoomReach({One}, {Minus15}, MaxZoomRun),
              ZoomDeltas, 1)

\* the zoom buttons and Ctrl+wheel: zoom(delta)
ZoomEvent(delta) ==
    /\ zoomTo(state.zoom, delta) \in ZoomRuns
    /\ Handle("zoom", <<delta>>, <<>>, zoom(View, delta))

\* ArrowLeft / ArrowRight on a zoomed image: pan(50, 0) / pan(-50, 0)
PanKey(left) ==
    LET panned == pan(View, IF left THEN PanStep ELSE 0 - PanStep, 0)[2]
    IN  /\ dLess(One, state.zoom)
        /\ InPanBound(panned)
        /\ Handle("pan", <<left>>, <<>>, panned)

NextZoom ==
    \/ Boot(<<>>)
    \/ InitLoad
    \/ \E delta \in ZoomDeltas : ZoomEvent(delta)
    \/ \E left \in BOOLEAN : PanKey(left)
    \/ DblClick
    \/ \E mode \in {"height", "width"} : FitButton(mode)
    \/ SidePrev
    \/ SideNext
    \/ \E n \in 0..(NumPages + 1) : PageInput(n)

SpecZoom == InitZoom /\ [][NextZoom]_vars

(***************************************************************************)
(* Viewer: calls of the reference codec, makeRef and parseRef.             *)
(***************************************************************************)
MaxRefBook == 3     \* books 1..MaxRefBook are encoded, and book 12

RefBooks == 1..MaxRefBook \cup {12}

\* chapter and page numbers of one and of two digits
RefNumbers == {1, 4, 9, 10, 25, 99}

\* strings parseRef is called on besides those makeRef made
RefStrings ==
    {"not-a-ref", "", "3-04", "3-04-25-1", "3--25", "-04-25", "3-04-", "cover",
     "a-04-25", "3-04-2b", "3_04_25", "3-4-25", "03-004-025", "0-00-00"}

\* the viewer is running on one page; the codec reads no state
InitCodec ==
    /\ InitTransitions
    /\ state.zoom = One
    /\ state.fitMode = "height"
    /\ tocHidden
    /\ ~cleanMode

\* makeRef(b, c, p); load: the string it returns
CallMakeRef(b, ch, p) ==
    /\ last' = Ev("makeRef", <<b, ch, p>>, <<makeRef(b, ch, p)>>)
    /\ UNCHANGED <<navVars, immVars, buildVars>>

\* parseRef(ref); load: what it returns
CallParseRef(ref) ==
    /\ last' = Ev("parseRef", <<ref>>, <<parseRef(ref)>>)
    /\ UNCHANGED <<navVars, immVars, buildVars>>

\* parseRef(makeRef(b, c, p)): the string the last makeRef returned is parsed
ParseMade ==
    /\ last.op = "makeRef"
    /\ CallParseRef(last.load[1])

NextCodec ==
    \/ \E b \in RefBooks, ch \in RefNumbers, p \in RefNumbers :
           CallMakeRef(b, ch, p)
    \/ \E ref \in RefStrings : CallParseRef(ref)
    \/ ParseMade

SpecCodec == InitCodec /\ [][NextCodec]_vars

(***************************************************************************)
(* Viewer: immersive mode (fullscreen, clean mode, tap to show the UI).    *)
(***************************************************************************)
isFullscreen == fsElement

isCleanMode == cleanMode

isImmersive == isFullscreen \/ isCleanMode

\* The mode, in the order toggleFullscreen tests it.
Mode ==
    IF isFullscreen THEN "native"
    ELSE IF isCleanMode THEN "degraded"
    ELSE "off"

\* CSS: in fullscreen the controls show when the fullscreen element (html)
\* has 'show-ui', in clean mode when body has 'clean-mode' and 'show-ui'
ChromeRevealed ==
    \/ fsElement /\ showUiHtml
    \/ cleanMode /\ showUiBody

\* an event handler of the running viewer that writes immersive state only
Immersive(op, arg) ==
    /\ pc = "run"
    /\ last' = Ev(op, arg, <<>>)
    /\ UNCHANGED navVars
    /\ UNCHANGED fsAvailable
    /\ UNCHANGED buildVars

\* toggleFullscreen(): the fullscreen button, or the key F
toggleFullscreen ==
    IF isFullscreen
    THEN \* exitFullscreen(): the exit itself is the event FullscreenExit
         UNCHANGED <<fsElement, pendingReq, cleanMode, showUiHtml, showUiBody>>
    ELSE IF isCleanMode
    THEN /\ cleanMode' = FALSE
         /\ showUiBody' = FALSE
         /\ UNCHANGED <<fsElement, pendingReq, showUiHtml>>
    ELSE IF fsAvailable
    THEN /\ pendingReq' = pendingReq + 1
         /\ UNCHANGED <<fsElement, cleanMode, showUiHtml, showUiBody>>
    ELSE /\ cleanMode' = TRUE
         /\ UNCHANGED <<fsElement, pendingReq, showUiHtml, showUiBody>>

ToggleFullscreen ==
    /\ isImmersive \/ ~fsAvailable \/ pendingReq < MaxPending
    /\ toggleFullscreen
    /\ UNCHANGED <<uiTimeout, timers>>
    /\ Immersive("toggleFullscreen", <<Mode>>)

\* the platform grants a pending request: fullscreenchange fires with
\* isFullscreen() true, so the handler does nothing
RequestAccepted ==
    /\ pendingReq > 0
    /\ pendingReq' = pendingReq - 1
    /\ fsElement' = TRUE
    /\ UNCHANGED <<cleanMode, showUiHtml, showUiBody, uiTimeout, timers>>
    /\ Immersive("accepted", <<Mode>>)

\* a catch handler that does nothing
requestRejected_Ignored ==
    UNCHANGED <<fsElement, cleanMode, showUiHtml, showUiBody>>

\* the catch handler of a pending request
requestRejected ==
    /\ cleanMode' = TRUE
    /\ UNCHANGED <<fsElement, showUiHtml, showUiBody>>

RequestRejected ==
    /\ pendingReq > 0
    /\ pendingReq' = pendingReq - 1
    /\ requestRejected
    /\ UNCHANGED <<uiTimeout, timers>>
    /\ Immersive("rejected", <<Mode>>)

\* fullscreen ends (exitFullscreen() completes, or the platform's own escape):
\* the fullscreenchange / webkitfullscreenchange handler
FullscreenExit ==
    /\ fsElement
    /\ fsElement' = FALSE
    /\ showUiHtml' = FALSE
    /\ showUiBody' = FALSE
    /\ UNCHANGED <<pendingReq, cleanMode, uiTimeout, timers>>
    /\ Immersive("fullscreenExit", <<Mode>>)

\* showUI() without clearTimeout(uiTimeout)
showUI_NoClear ==
    \E id \in (1..(MaxTimers + 1)) \ (timers \cup {uiTimeout}) :
        /\ timers' = timers \cup {id}
        /\ uiTimeout' = id
        /\ showUiHtml' = TRUE
        /\ showUiBody' = TRUE

\* showUI() that arms no timer
showUI_NoTimer ==
    /\ timers' = timers \ {uiTimeout}
    /\ uiTimeout' = uiTimeout
    /\ showUiHtml' = TRUE
    /\ showUiBody' = TRUE

\* showUI() that does not keep the id setTimeout returns
showUI_IdNotKept ==
    \E id \in (1..(MaxTimers + 1)) \ (timers \cup {uiTimeout}) :
        /\ timers' = (timers \ {uiTimeout}) \cup {id}
        /\ uiTimeout' = uiTimeout
        /\ showUiHtml' = TRUE
        /\ showUiBody' = TRUE

\* showUI(): clearTimeout(uiTimeout), the classes, and a new timer
showUI ==
    \E id \in (1..(MaxTimers + 1)) \ (timers \cup {uiTimeout}) :
        /\ timers' = (timers \ {uiTimeout}) \cup {id}
        /\ uiTimeout' = id
        /\ showUiHtml' = TRUE
        /\ showUiBody' = TRUE

\* click on the image or its container; arg: the mode and whether the chrome
\* was revealed at the time
Tap ==
    /\ IF isImmersive THEN showUI
       ELSE UNCHANGED <<showUiHtml, showUiBody, uiTimeout, timers>>
    /\ UNCHANGED <<fsElement, pendingReq, cleanMode>>
    /\ Immersive("tap", <<Mode, ChromeRevealed>>)

\* the callback of timer id, 3000 ms after showUI armed it
TimerFires(id) ==
    /\ id \in timers
    /\ timers' = timers \ {id}
    /\ showUiHtml' = FALSE
    /\ showUiBody' = FALSE
    /\ UNCHANGED <<fsElement, pendingReq, cleanMode, uiTimeout>>
    /\ Immersive("timer", <<id>>)

\* keydown Escape: if (isCleanMode()) body.classList.remove('clean-mode','show-ui')
KeyEscape ==
    /\ IF isCleanMode
       THEN cleanMode' = FALSE /\ showUiBody' = FALSE
       ELSE UNCHANGED <<cleanMode, showUiBody>>
    /\ UNCHANGED <<fsElement, pendingReq, showUiHtml, uiTimeout, timers>>
    /\ Immersive("escape", <<Mode>>)

NextImmersive ==
    \/ \E tok \in HashTokens : Boot(tok)
    \/ InitLoad
    \/ ToggleFullscreen
    \/ RequestAccepted
    \/ RequestRejected
    \/ FullscreenExit
    \/ Tap
    \/ \E id \in 1..(MaxTimers + 1) : TimerFires(id)
    \/ KeyEscape

\* Immersive mode, on one document model and an empty store.
InitImmersive ==
    /\ InitNav
    /\ cfg = 2
    /\ storeOK
    /\ store = NoBlob
    /\ InitImm
    /\ fsAvailable \in BOOLEAN
    /\ Built

SpecImmersive == InitImmersive /\ [][NextImmersive]_vars

\* The same with the event loop running: the callback of a pending timer is
\* called in the end (setTimeout, 3000 ms).
SpecReveal ==
    /\ InitImmersive
    /\ [][NextImmersive]_vars
    /\ \A id \in 1..(MaxTimers + 1) : WF_vars(TimerFires(id))

(***************************************************************************)
(* The build (Python): load_toc and parse_toc_txt on a book folder.  An    *)
(* exception is not caught anywhere in the script: it ends the build.      *)
(***************************************************************************)
MaxLines == 3       \* lines of toc.txt

\* the lines toc.txt is made of
Lines ==
    { "",
      "# contents",
      "BOOK 2 | Two",
      "BOOK",
      "CH 1-02 | Intro",
      "ch 04 | Four !",
      "CH x | Bad",
      "CH 3-04-1 | Bad",
      "Check 5 | List",
      "3 | Middle | N1, N2 ~",
      "07",
      "5 | Wow! |",
      "Appendix | A" }

\* the lines of the outline of the end-to-end example
ExampleLines == {"CH 1-01 | Intro", "03 | Middle"}

LineTable == [raw \in Lines \cup ExampleLines |-> tokens(raw)]

\* f.read_text().splitlines() of the toc.txt files
TocTxts == UNION {[1..n -> Lines] : n \in 0..MaxLines}

\* json.loads(f.read_text()) of the toc.json files
TocJsons ==
    { <<>>,
      <<[book |-> 2, name |-> "Two",
         chapters |-> <<[number |-> 3, name |-> "Old",
                         sections |-> <<[name |-> "S", page |-> "2-03-02"]>>],
                        [number |-> 11, toc |-> "2-11-04"]>>],
        [name |-> "Loose", chapters |-> <<[number |-> 1]>>],
        [book |-> 4]>> }

Folders ==
    [toc_txt : {<<>>} \cup {<<d>> : d \in TocTxts},
     toc_json : {<<>>} \cup {<<j>> : j \in TocJsons}]

\* the viewer's variables while the page is not written yet
NoPage ==
    /\ cfg = 2
    /\ pc = "boot"
    /\ state = DefaultState
    /\ storeOK = TRUE
    /\ store = NoBlob
    /\ imgSrc = ""
    /\ tocHidden = TRUE
    /\ open = {}
    /\ activeCh = {}
    /\ active = {}
    /\ breadcrumb = [bc |-> "", ref |-> "", cp |-> "1", pt |-> ""]
    /\ last = Ev("none", <<>>, <<>>)
    /\ InitImm
    /\ fsAvailable = FALSE

\* build calls load_toc(folder), which calls parse_toc_txt(folder)
InitBuild ==
    /\ NoPage
    /\ folder \in Folders
    /\ bpc = "load_toc"
    /\ lineNo = 0
    /\ chapters = <<>>
    /\ cur_book = <<>>
    /\ cur_ch = 0
    /\ raised = ""
    /\ toc = <<>>
    /\ toc_source = "None"
    /\ dirs = [pages |-> <<>>, webp |-> <<>>, own |-> <<>>]
    /\ images = <<>>
    /\ img_folder = ""
    /\ index_html = <<>>
    /\ returned = ""

\* the line the loop of parse_toc_txt takes next
NextLine == LineTable[folder.toc_txt[1][lineNo + 1]]

InLoop == bpc = "lines" /\ lineNo < Len(folder.toc_txt[1])

\* an exception leaves parse_toc_txt, load_toc and build
Raise(exc) ==
    /\ raised' = exc
    /\ bpc' = "raised"
    /\ UNCHANGED <<lineNo, chapters, cur_book, cur_ch>>

\* parse_toc_txt: toc.txt does not exist, return None
TocTxtMissing ==
    /\ bpc = "load_toc"
    /\ folder.toc_txt = <<>>
    /\ bpc' = "parsed"
    /\ UNCHANGED <<lineNo, chapters, cur_book, cur_ch, raised>>
    /\ UNCHANGED <<folder, toc, toc_source, navVars, immVars, last, catVars>>

\* parse_toc_txt: toc.txt exists, the loop over its lines starts
TocTxtOpen ==
    /\ bpc = "load_toc"
    /\ folder.toc_txt # <<>>
    /\ bpc' = "lines"
    /\ UNCHANGED <<lineNo, chapters, cur_book, cur_ch, raised>>
    /\ UNCHANGED <<folder, toc, toc_source, navVars, immVars, last, catVars>>

\* an empty line or a comment
SkipLine ==
    /\ InLoop
    /\ isSkipped(NextLine)
    /\ lineNo' = lineNo + 1
    /\ UNCHANGED <<bpc, chapters, cur_book, cur_ch, raised>>
    /\ UNCHANGED <<folder, toc, toc_source, navVars, immVars, last, catVars>>

\* BOOK num | name
BookLine ==
    /\ InLoop
    /\ isBookLine(NextLine)
    /\ LET r == bookOf(NextLine)
       IN  IF r.exc # "" THEN Raise(r.exc)
           ELSE /\ cur_book' = r.book
                /\ lineNo' = lineNo + 1
                /\ UNCHANGED <<bpc, chapters, cur_ch, raised>>
    /\ UNCHANGED <<folder, toc, toc_source, navVars, immVars, last, catVars>>

\* a CH branch that files a chapter without book under book 0
bookAfter_DefaultZero(token_book, cur) ==
    IF token_book # <<>> THEN token_book
    ELSE IF cur # <<>> THEN cur
    ELSE <<0>>

\* a CH branch in which a set register is not overwritten by the token
bookAfter_KeepFirst(token_book, cur) == IF cur # <<>> THEN cur ELSE token_book

\* CH branch: cur_book once the token is read, the token's book (<<>> for a
\* token without hyphen) overwriting the register cur
bookAfter(token_book, cur) == IF token_book # <<>> THEN token_book ELSE cur

\* CH num | name and CH book-num | name
ChLine ==
    /\ InLoop
    /\ isChLine(NextLine)
    /\ LET r == chOf(NextLine)
           book == bookAfter(r.book, cur_book)
       IN  IF r.exc # "" THEN Raise(r.exc)
           ELSE /\ cur_book' = book
                /\ lineNo' = lineNo + 1
                /\ IF book = <<>> THEN UNCHANGED <<chapters, cur_ch>>
                   ELSE /\ chapters' =
                              Append(chapters, NewChapter(book[1], r.num, r.name))
                        /\ cur_ch' = Len(chapters) + 1
                /\ UNCHANGED <<bpc, raised>>
    /\ UNCHANGED <<folder, toc, toc_source, navVars, immVars, last, catVars>>

\* page | name | LOs, under a chapter
SectionLine ==
    /\ InLoop
    /\ isOtherLine(NextLine)
    /\ cur_ch # 0 /\ isdigit(NextLine.parts[1])
    /\ LET sec == secOf(NextLine)
       IN  chapters' = [chapters EXCEPT ![cur_ch] =
                AddSectionLo(@, sec.page_num, sec.sec_name, sec.los)]
    /\ lineNo' = lineNo + 1
    /\ UNCHANGED <<bpc, cur_book, cur_ch, raised>>
    /\ UNCHANGED <<folder, toc, toc_source, navVars, immVars, last, catVars>>

\* any other line falls through the loop body
OtherLine ==
    /\ InLoop
    /\ isOtherLine(NextLine)
    /\ ~(cur_ch # 0 /\ isdigit(NextLine.parts[1]))
    /\ lineNo' = lineNo + 1
    /\ UNCHANGED <<bpc, chapters, cur_book, cur_ch, raised>>
    /\ UNCHANGED <<folder, toc, toc_source, navVars, immVars, last, catVars>>

\* parse_toc_txt: return chapters if chapters else None
ParseReturn ==
    /\ bpc = "lines"
    /\ lineNo = Len(folder.toc_txt[1])
    /\ bpc' = "parsed"
    /\ UNCHANGED <<lineNo, chapters, cur_book, cur_ch, raised>>
    /\ UNCHANGED <<folder, toc, toc_source, navVars, immVars, last, catVars>>

\* load_toc: what it returns to build once parse_toc_txt has returned
\* chs (<<>> when parse_toc_txt returned None), as <<toc, toc_source>>
load_toc(chs, dir) ==
    IF chs # <<>> THEN <<chs, "toc.txt">>
    ELSE IF dir.toc_json # <<>> THEN <<flatten(dir.toc_json[1]), "toc.json">>
    ELSE <<<<>>, "None">>

\* load_toc returns
LoadTocReturn ==
    /\ bpc = "parsed"
    /\ toc' = load_toc(chapters, folder)[1]
    /\ toc_source' = load_toc(chapters, folder)[2]
    /\ bpc' = "done"
    /\ UNCHANGED <<lineNo, chapters, cur_book, cur_ch, raised>>
    /\ UNCHANGED <<folder, navVars, immVars, last, catVars>>

NextBuild ==
    \/ TocTxtMissing
    \/ TocTxtOpen
    \/ SkipLine
    \/ BookLine
    \/ ChLine
    \/ SectionLine
    \/ OtherLine
    \/ ParseReturn
    \/ LoadTocReturn

SpecBuild == InitBuild /\ [][NextBuild]_vars

(***************************************************************************)
(* The build (Python) from the start: find_images, the empty catalog, the  *)
(* page map, load_toc and the writing of index.html.                      *)
(***************************************************************************)
MaxFiles == 3       \* entries of the pages directory

File(name) == [name |-> name, is_file |-> TRUE]

\* the entries the pages directory is made of
FilePool ==
    { File("2-9-1.webp"), File("2-10-1.webp"), File("2-2-1.webp"),
      File("B.PNG"), File("a.png"), File("notes.txt"),
      [name |-> "x.webp", is_file |-> FALSE] }

\* d.iterdir() of the pages directories: the entries in any order
Listings ==
    {l \in UNION {[1..n -> FilePool] : n \in 0..MaxFiles} :
        \A i, j \in 1..Len(l) : l[i] = l[j] => i = j}

\* two names with the same sort key, in both orders
TieListings ==
    { <<File("2-9-1.webp"), File("2-09-1.webp")>>,
      <<File("2-09-1.webp"), File("2-9-1.webp")>> }

\* listings of pages/ without an image
NoImageListings ==
    { <<>>, <<File("notes.txt"), [name |-> "x.webp", is_file |-> FALSE]>> }

\* the catalog of the end-to-end example, as iterdir lists it
ExampleListing ==
    <<File("1-01-03.webp"), File("1-01-01.webp"), File("1-01-05.webp"),
      File("1-01-02.webp"), File("1-01-04.webp")>>

WebpListing == <<File("1-01-01.jpg"), File("1-02-01.jpg"), File("1-01-02.jpg")>>

\* the folder itself, without images and with one
OwnListing ==
    <<File("build-comic.py"), File("toc.txt"),
      [name |-> "pages", is_file |-> FALSE]>>

OwnListings == {OwnListing, <<File("build-comic.py"), File("cover.jpg")>>}

NoTocFolder == [toc_txt |-> <<>>, toc_json |-> <<>>]

\* the outline sources of the folders that are built to the end
CatalogFolders ==
    { [toc_txt |-> << <<"CH 1-01 | Intro", "03 | Middle">> >>, toc_json |-> <<>>],
      [toc_txt |-> << <<"# contents", "BOOK 2 | Two", "ch 04 | Four !",
                        "5 | Wow! |", "Appendix | A">> >>,
       toc_json |-> <<>>],
      [toc_txt |-> << <<"CH 1-02 | Intro", "CH x | Bad">> >>, toc_json |-> <<>>],
      [toc_txt |-> <<>>, toc_json |-> << <<>> >>] }

\* the folders build is run on: <<dirs, folder>>
BuildInputs ==
    ([pages : {<<l>> : l \in Listings \cup TieListings},
      webp : {<<>>},
      own : {<<OwnListing>>}] \X {NoTocFolder})
    \cup ([pages : {<<>>, << <<File("a.png")>> >>}
                       \cup {<<l>> : l \in NoImageListings},
            webp : {<<>>, <<WebpListing>>, << <<File("notes.txt")>> >>},
            own : {<<l>> : l \in OwnListings}] \X {NoTocFolder})
    \cup ([pages : {<<ExampleListing>>}, webp : {<<>>},
           own : {<<l>> : l \in OwnListings}] \X CatalogFolders)

\* build(folder) is called
InitCatalog ==
    /\ NoPage
    /\ \E input \in BuildInputs : dirs = input[1] /\ folder = input[2]
    /\ bpc = "build"
    /\ lineNo = 0
    /\ chapters = <<>>
    /\ cur_book = <<>>
    /\ cur_ch = 0
    /\ raised = ""
    /\ toc = <<>>
    /\ toc_source = "None"
    /\ images = <<>>
    /\ img_folder = ""
    /\ index_html = <<>>
    /\ returned = ""

\* images, img_folder = find_images(folder)
FindImages ==
    /\ bpc = "build"
    /\ images' = find_images(dirs)[1]
    /\ img_folder' = find_images(dirs)[2]
    /\ bpc' = "found"
    /\ UNCHANGED <<dirs, index_html, returned>>
    /\ UNCHANGED <<folder, lineNo, chapters, cur_book, cur_ch, raised, toc,
                   toc_source, navVars, immVars, last>>

\* if not images: print the failure and return False
NoImages ==
    /\ bpc = "found"
    /\ images = <<>>
    /\ returned' = "False"
    /\ bpc' = "failed"
    /\ UNCHANGED <<dirs, images, img_folder, index_html>>
    /\ UNCHANGED <<folder, lineNo, chapters, cur_book, cur_ch, raised, toc,
                   toc_source, navVars, immVars, last>>

\* images_full and page_map are built, load_toc(folder) is called
CallLoadToc ==
    /\ bpc = "found"
    /\ images # <<>>
    /\ bpc' = "load_toc"
    /\ UNCHANGED catVars
    /\ UNCHANGED <<folder, lineNo, chapters, cur_book, cur_ch, raised, toc,
                   toc_source, navVars, immVars, last>>

\* config is put into the template, index.html is written, return True
WriteOutput ==
    /\ bpc = "done"
    /\ index_html' = <<build(img_folder, images, toc)>>
    /\ returned' = "True"
    /\ bpc' = "written"
    /\ UNCHANGED <<dirs, images, img_folder>>
    /\ UNCHANGED <<folder, lineNo, chapters, cur_book, cur_ch, raised, toc,
                   toc_source, navVars, immVars, last>>

\* loadPage(idx) of the viewer in the written index.html, whose CONFIG is c
loadPageOn(c, v, idx) ==
    IF idx < 0 \/ idx >= Len(c.pages) THEN v
    ELSE LET h == highlightAt(c, idx)
         IN  saveState(
                 [v EXCEPT !.state = resetTransform([v.state EXCEPT !.page = idx]),
                           !.imgSrc = c.pages[idx + 1],
                           !.breadcrumb = breadcrumbAt(c, idx),
                           !.open = h.open,
                           !.activeCh = h.activeCh,
                           !.active = h.active])

\* index.html is opened: the inline script runs up to loadPage
OpenArtifact ==
    /\ bpc = "written"
    /\ Boot(<<>>)

\* the end of the inline script of the written index.html: loadPage(state.page)
InitLoadBuilt ==
    /\ bpc = "written"
    /\ pc = "init"
    /\ SetView(loadPageOn(index_html[1], View, state.page))
    /\ last' = Ev("init", last.arg, <<state.page>>)
    /\ pc' = "run"
    /\ UNCHANGED <<cfg, storeOK>>
    /\ UNCHANGED immVars
    /\ UNCHANGED buildVars

\* loadPage(idx) in the running viewer of the written index.html
LoadBuilt(idx) ==
    /\ bpc = "written"
    /\ pc = "run"
    /\ SetView(loadPageOn(index_html[1], View, idx))
    /\ last' = Ev("loadPage", <<idx>>, <<idx>>)
    /\ UNCHANGED <<cfg, pc, storeOK>>
    /\ UNCHANGED immVars
    /\ UNCHANGED buildVars

NextCatalog ==
    \/ FindImages
    \/ NoImages
    \/ CallLoadToc
    \/ NextBuild
    \/ WriteOutput
    \/ OpenArtifact
    \/ InitLoadBuilt
    \/ \E idx \in 0..(Len(images) - 1) : LoadBuilt(idx)

SpecCatalog == InitCatalog /\ [][NextCatalog]_vars

(***************************************************************************)
(* Properties.  last.load is <<idx>> when the event handled last called    *)
(* loadPage(idx), else <<>>.                                               *)
(***************************************************************************)
InRange(i) == i >= 0 /\ i < NumPages

LoadedOutOfRange == last.load # <<>> /\ ~InRange(last.load[1])

LoadedInRange == last.load # <<>> /\ InRange(last.load[1])

\* C1: Load(i) with i < 0 or i >= pages.length is a no-op: the index, zoom,
\* pan offsets and fit mode are unchanged and nothing is written to the store.
C1_LoadOutOfRangeIsNoOp ==
    [][LoadedOutOfRange' => (state' = state /\ store' = store)]_vars

\* C1 happens: the next-page button on the last page, zoomed in
C1_Witness ==
    /\ last.op = "sideNext"
    /\ last.load = <<NumPages>>
    /\ state.page = NumPages - 1
    /\ state.zoom = zoomTo(One, Plus15)
    /\ store # NoBlob

\* C2: Load(i) with 0 <= i < pages.length sets the index to i, resets zoom to
\* 1 and pan to (0,0), leaves the fit mode unchanged and persists the
\* resulting state (the store, when it works, then holds that state).
C2_LoadInRange ==
    [][LoadedInRange' =>
          /\ state'.page = last'.load[1]
          /\ state'.zoom = One
          /\ state'.translateX = 0
          /\ state'.translateY = 0
          /\ state'.fitMode = state.fitMode
          /\ imgSrc' = CONFIG.pages[last'.load[1] + 1]
          /\ (storeOK => store' = state')]_vars

\* C2 happens: Ctrl+ArrowRight from page index 0 in fit mode width
C2_Witness ==
    /\ last.op = "keydown"
    /\ last.arg = <<"ArrowRight", TRUE>>
    /\ last.load = <<1>>
    /\ state.page = 1
    /\ state.fitMode = "width"
    /\ store = state

\* C3: at startup a deep-link token page=n that is present and in range
\* (1 <= n <= pages.length) starts the viewer at index n-1; if the token is
\* absent or out of range the viewer starts at the persisted index, or at 0
\* when nothing is persisted.  (last.arg is <<token, index read from the store>>.)
C3_DeepLinkStart ==
    last.op = "init" =>
        LET tok == last.arg[1]
            persisted == last.arg[2]
        IN  state.page = IF tok # <<>> /\ tok[1] >= 1 /\ tok[1] <= NumPages
                         THEN tok[1] - 1
                         ELSE persisted

\* the sections of the outline chapters whose ref is the chapter reference of
\* the current page, at or before the current page
C4_Candidates ==
    LET ref == BreadcrumbTable[cfg][state.page].ref
    IN  UNION {{<<k, j>> : j \in {i \in 1..Len(CONFIG.toc[k].sections) :
                                     /\ ref # ""
                                     /\ CONFIG.toc[k].ref = ref
                                     /\ IdxTable[cfg][k].s[i] <= state.page}} :
               k \in 1..Len(CONFIG.toc)}

\* C4: after Load(i) the highlighted outline section is the section of the
\* current page's chapter whose page index is the greatest one that is <= i;
\* there is no highlight exactly when there is no such section.
C4_NearestSectionHighlighted ==
    (pc = "run" /\ InRange(state.page)) =>
        /\ Cardinality(active) <= 1
        /\ (active = {}) = (C4_Candidates = {})
        /\ \A e \in active :
              /\ e \in C4_Candidates
              /\ \A f \in C4_Candidates :
                    IdxTable[cfg][f[1]].s[f[2]] <= IdxTable[cfg][e[1]].s[e[2]]

\* C4 happens: sections of 3-04 at pages 01, 03, 11, 18, the page 3-04-15 is
\* loaded, and the section at page 11 is highlighted
C4_Witness ==
    /\ cfg = 3
    /\ last.load = <<3>>
    /\ CONFIG.pages[state.page + 1] = "pages/3-04-15.webp"
    /\ active = {<<1, 3>>}
    /\ CONFIG.toc[1].sections[3].page = "3-04-11"

\* C5: after every transition the open outline chapters are chapters of the
\* current page and at most one outline chapter is open.
C5_OneOpenChapter ==
    (pc = "run" /\ InRange(state.page)) =>
        /\ Cardinality(open) <= 1
        /\ \A k \in open : CONFIG.toc[k].ref = BreadcrumbTable[cfg][state.page].ref

\* the Reference (b, c, p) of the current page
C6_Ref == parseRef(getRef(CONFIG, state.page))

\* the outline chapters whose ref is chapterKey(b, c)
C6_Named == {k \in 1..Len(CONFIG.toc) : CONFIG.toc[k].ref = chRef(C6_Ref)}

C6_PageLabel ==
    breadcrumb.cp = IF C6_Ref.page = 1 THEN "Contents"
                    ELSE "p." \o ToStr(C6_Ref.page)

C7_Resolve(ref) ==
    IF ref \in DOMAIN CONFIG.pageMap THEN CONFIG.pageMap[ref] ELSE 0

C7_Loaded(i) ==
    last.load = <<i>> /\ state.page = i /\ imgSrc = CONFIG.pages[i + 1]

\* C7: activating an outline chapter heading loads the index its tocAnchor
\* resolves to through referenceIndex, activating a section loads the index
\* its pageRef resolves to; an anchor or pageRef absent from referenceIndex
\* resolves to index 0.
C7_OutlineActivation ==
    /\ last.op = "chapterClick" =>
          C7_Loaded(C7_Resolve(CONFIG.toc[last.arg[1]].toc))
    /\ last.op = "sectionClick" =>
          C7_Loaded(C7_Resolve(CONFIG.toc[last.arg[1]].sections[last.arg[2]].page))

\* C7 happens: a section whose pageRef 1-01-05 is not in the catalog is
\* activated and index 0 is loaded
C7_Witness ==
    /\ cfg = 4
    /\ last.op = "sectionClick"
    /\ last.arg = <<2, 1>>
    /\ CONFIG.toc[2].sections[1].page \notin DOMAIN CONFIG.pageMap
    /\ state.page = 0
    /\ imgSrc = "webp/1-01-01.jpg"

\* C8: when immersive mode is toggled from off and the native fullscreen
\* capability is unavailable the mode becomes degraded; when a request is
\* rejected the mode is never off afterwards, and it is degraded if it was
\* off; when a request is accepted the mode becomes native.  (last.arg is
\* the mode before the event.)
C8_ToggleFromOff ==
    /\ (last.op = "toggleFullscreen" /\ last.arg = <<"off">> /\ ~fsAvailable) =>
          Mode = "degraded"
    /\ (last.op = "toggleFullscreen" /\ last.arg = <<"off">> /\ fsAvailable) =>
          (Mode = "off" /\ pendingReq > 0)
    /\ last.op = "rejected" =>
          (Mode # "off" /\ (last.arg = <<"off">> => Mode = "degraded"))
    /\ last.op = "accepted" => Mode = "native"

\* C8 happens: a request issued from off was rejected and the mode is degraded
C8_Witness ==
    /\ last.op = "rejected"
    /\ last.arg = <<"off">>
    /\ fsAvailable
    /\ Mode = "degraded"
    /\ pendingReq = 0

\* C9: at the moment immersive mode becomes native or degraded the chrome is
\* hidden, and it stays hidden until the next tap on the image area.
C9_ChromeHiddenAtEntry ==
    [][/\ (Mode = "off" /\ Mode' # "off") => ~ChromeRevealed'
       /\ (Mode # "off" /\ ~ChromeRevealed /\ ChromeRevealed') => last'.op = "tap"]_vars

C11_ExternalExitClears ==
    last.op = "fullscreenExit" =>
        /\ Mode = "off"
        /\ ~showUiHtml
        /\ ~showUiBody
        /\ timers = {}

\* C12: after every transition of the running viewer that changes index,
\* zoom, pan or fit mode, the persisted blob equals the current Navigation
\* State, provided the store is available.
C12_StoreFollowsState ==
    [][(pc = "run" /\ storeOK /\ state' # state) => store' = state']_vars

C13_IsPan(st, ev) ==
    /\ ev.op = "keydown"
    /\ ev.load = <<>>
    /\ ev.arg[1] \in {"ArrowLeft", "ArrowRight", "ArrowUp", "ArrowDown"}
    /\ dLess(One, st.zoom)

\* the Navigation State after the event ev from the Navigation State st, as
\* the transitions Load, SetFitMode, Zoom, Pan and the zoom reset define it
\* without any reference to the store
C13_Effect(st, ev) ==
    CASE ev.load # <<>> /\ InRange(ev.load[1]) ->
            [st EXCEPT !.page = ev.load[1], !.zoom = One, !.translateX = 0,
                       !.translateY = 0]
      [] ev.load # <<>> /\ ~InRange(ev.load[1]) -> st
      [] ev.load = <<>> /\ ev.op = "fit" ->
            [st EXCEPT !.fitMode = ev.arg[1], !.zoom = One, !.translateX = 0,
                       !.translateY = 0]
      [] ev.load = <<>> /\ ev.op = "keydown" /\ ev.arg[1] \in {"h", "w"} ->
            [st EXCEPT !.fitMode = IF ev.arg[1] = "h" THEN "height" ELSE "width",
                       !.zoom = One, !.translateX = 0, !.translateY = 0]
      [] ev.op = "zoomIn" -> [st EXCEPT !.zoom = zoomTo(@, Plus15)]
      [] ev.op = "zoomOut" -> [st EXCEPT !.zoom = zoomTo(@, Minus15)]
      [] ev.op = "wheel" ->
            [st EXCEPT !.zoom = zoomTo(@, IF ev.arg[1] THEN Minus10 ELSE Plus10)]
      [] ev.op = "dblclick" ->
            [st EXCEPT !.zoom = One, !.translateX = 0, !.translateY = 0]
      [] C13_IsPan(st, ev) ->
            [st EXCEPT
                !.translateX = @ + (IF ev.arg[1] = "ArrowLeft" THEN PanStep
                                    ELSE IF ev.arg[1] = "ArrowRight"
                                    THEN 0 - PanStep ELSE 0),
                !.translateY = @ + (IF ev.arg[1] = "ArrowUp" THEN PanStep
                                    ELSE IF ev.arg[1] = "ArrowDown"
                                    THEN 0 - PanStep ELSE 0)]
      [] OTHER -> st

C14_Lit16 == <<107374182, 429496736>>

\* state.zoom after three calls zoom(.15) from 1
C14_AfterThree == zoomTo(zoomTo(zoomTo(One, Plus15), Plus15), Plus15)

\* C14: Zoom(delta) leaves zoom within [0.25, 5] and changes nothing else;
\* the fourth Zoom(+0.15) from 1.0 gives 1.6, and Zoom(+0.15) from 4.95
\* gives exactly 5.0.
C14_ZoomClamps ==
    [][last'.op = "zoom" =>
          /\ state' = [state EXCEPT !.zoom = state'.zoom]
          /\ ~dLess(state'.zoom, Quarter)
          /\ ~dLess(Five, state'.zoom)
          /\ (state.zoom = Lit495 /\ last'.arg = <<Plus15>>) => state'.zoom = Five
          /\ (state.zoom = C14_AfterThree /\ last'.arg = <<Plus15>>) =>
                state'.zoom = C14_Lit16]_vars

\* C15: Pan(dx, dy) when zoom > 1 adds (dx, dy) to the pan offsets, changes
\* nothing else and reports "applied"; when zoom <= 1 it reports "not
\* applied" and leaves the whole state unchanged.  (last.arg is dx, dy and
\* the report.)
C15_PanOnlyWhenZoomed ==
    [][last'.op = "pan" =>
          IF dLess(One, state.zoom)
          THEN /\ last'.arg[3] = TRUE
               /\ state' = [state EXCEPT !.translateX = @ + last'.arg[1],
                                         !.translateY = @ + last'.arg[2]]
          ELSE /\ last'.arg[3] = FALSE
               /\ UNCHANGED navVars]_vars

\* C15 happens: Pan(50, 0) at zoom 2 from translateX 0 was applied
C15_Witness ==
    /\ last.op = "pan"
    /\ last.arg = <<50, 0, TRUE>>
    /\ state.zoom = Two
    /\ state.translateX = 50
    /\ state.translateY = 0

\* C16: SetFitMode(mode) sets fitMode to mode, resets zoom to 1 and pan to
\* (0,0) and leaves the index unchanged, also when mode equals the current
\* fit mode.
C16_SetFitModeResets ==
    [][last'.op = "setFitMode" =>
          state' = [page |-> state.page, zoom |-> One,
                    fitMode |-> last'.arg[1], translateX |-> 0,
                    translateY |-> 0]]_vars

\* C16 happens: the fit mode was set to the mode it had, at a zoom other
\* than 1, and the zoom is 1
C16_Witness ==
    /\ last.op = "setFitMode"
    /\ last.arg[1] = last.arg[2]
    /\ last.arg[3] # One
    /\ state.zoom = One
    /\ state.fitMode = last.arg[1]

\* C17: ToggleOutlinePanel(true) leaves the outline panel open,
\* ToggleOutlinePanel(false) leaves it closed, ToggleOutlinePanel() inverts
\* its visibility; index, zoom, pan, fit mode and immersive mode are
\* unchanged.
C17_ToggleOutlinePanel ==
    [][last'.op = "toggleTOC" =>
          /\ tocHidden' = (IF last'.arg[1] = "true" THEN FALSE
                           ELSE IF last'.arg[1] = "false" THEN TRUE
                           ELSE ~tocHidden)
          /\ state' = state
          /\ Mode' = Mode]_vars

\* C17 happens: ToggleOutlinePanel(false) on a closed panel, zoomed and
\* panned in degraded immersive mode, left it closed
C17_Witness ==
    /\ last.op = "toggleTOC"
    /\ last.arg = <<"false", TRUE>>
    /\ tocHidden
    /\ state.zoom = Two
    /\ state.translateX = 50
    /\ Mode = "degraded"


\* C18: once load_toc has returned, the outline is the primary source's
\* chapters whenever toc.txt yields at least one chapter, whatever toc.json
\* holds; the outline comes from toc.json if and only if toc.txt is absent or
\* yields no chapter, and toc.json exists; and when neither source yields a
\* chapter the result is null (None).
C18_SourceSelection ==
    bpc = "done" =>
        LET fallback == IF folder.toc_json = <<>> THEN <<>>
                        ELSE flatten(folder.toc_json[1])
        IN  /\ chapters # <<>> => toc = chapters /\ toc_source = "toc.txt"
            /\ toc_source = "toc.json"
                   <=> (chapters = <<>> /\ folder.toc_json # <<>>)
            /\ toc_source = "toc.json" => toc = fallback
            /\ (chapters = <<>> /\ fallback = <<>>) => toc_source = "None"

\* The words of C19: a BOOK or CH line without a token after the keyword,
\* with a number that is not numeric, or with a CH token of more than one
\* hyphen, and a line that merely starts with the letters CH or BOOK.
C19_Malformed(t) ==
    /\ ~isSkipped(t)
    /\ t.words # <<>>
    /\ LET kw == upper(t.words[1])
           tok == t.words[2]
           num == split(tok, "-")
       IN  \/ /\ kw = "BOOK"
              /\ Len(t.words) < 2 \/ ~AllDigits(tok)
           \/ /\ kw = "CH"
              /\ \/ Len(t.words) < 2
                 \/ Len(num) > 2
                 \/ \E i \in 1..Len(num) : ~AllDigits(num[i])
           \/ /\ kw \notin {"BOOK", "CH"}
              /\ startswith(kw, "BOOK") \/ startswith(kw, "CH")

\* C19: the parse never raises; the loop step that takes a malformed line
\* drops it: the parse goes on with the next line and the chapters, the book
\* register and the open chapter are what they were, so the other lines are
\* parsed as if the line were absent.
C19_MalformedLinesDropped ==
    [][(InLoop /\ C19_Malformed(NextLine)) =>
          /\ raised' = "" /\ bpc' = "lines" /\ lineNo' = lineNo + 1
          /\ UNCHANGED <<chapters, cur_book, cur_ch>>]_vars

\* The words of C20: a CH line whose token is a number without a book.
C20_LegacyCh(t) ==
    /\ ~isSkipped(t)
    /\ Len(t.words) >= 2
    /\ upper(t.words[1]) = "CH"
    /\ AllDigits(t.words[2])

\* C20: the loop step that takes a legacy CH <num> line while the book
\* register is unset opens no chapter: the list of chapters is unchanged (no
\* chapter of book 0 or of any other book is added), no chapter becomes the
\* open one, the register stays unset and the parse goes on.
C20_LegacyChWithoutBook ==
    [][(InLoop /\ C20_LegacyCh(NextLine) /\ cur_book = <<>>) =>
          /\ UNCHANGED <<chapters, cur_ch, cur_book>>
          /\ raised' = "" /\ lineNo' = lineNo + 1]_vars

\* C20 happens: a toc.txt that starts with a legacy CH line and goes on with a
\* section line has been parsed to the end and gave no chapter
C20_Witness ==
    /\ bpc = "done"
    /\ folder.toc_txt = << <<"ch 04 | Four !", "07">> >>
    /\ folder.toc_json = <<>>
    /\ chapters = <<>>
    /\ cur_book = <<>>
    /\ toc_source = "None"


\* The words of C21: a section line is a line whose first field is a page
\* number.
C21_SectionLine(t) == ~isSkipped(t) /\ AllDigits(t.parts[1])

\* C21: the loop step that takes a section line appends one section to the
\* chapter of the most recent accepted CH line (the last chapter of the list),
\* after the sections it already has, with page = that chapter's ref, "-" and
\* the page number padded to 2 digits, and changes no other chapter; while no
\* chapter is open the line is dropped: the list of chapters stays empty.
C21_SectionsAppended ==
    [][(InLoop /\ C21_SectionLine(NextLine)) =>
          LET n == Len(chapters)
              pageNum == ToInt(NextLine.parts[1])
          IN  /\ raised' = "" /\ lineNo' = lineNo + 1
              /\ Len(chapters') = n
              /\ \A k \in 1..(n - 1) : chapters'[k] = chapters[k]
              /\ n > 0 =>
                   LET old == chapters[n].sections
                       new == chapters'[n].sections
                   IN  /\ [chapters'[n] EXCEPT !.sections = old] = chapters[n]
                       /\ Len(new) = Len(old) + 1
                       /\ SubSeq(new, 1, Len(old)) = old
                       /\ new[Len(new)].page =
                              chapters[n].ref \o "-" \o padStart2(ToStr(pageNum))]_vars

\* C21 happens: a section line before any chapter was dropped, and the two
\* section lines after the CH line are the chapter's sections in file order
\* (MaxLines >= 3 lines are needed; a 4th line is any skipped line)
C21_Witness ==
    /\ bpc = "done"
    /\ Len(folder.toc_txt) = 1
    /\ Len(folder.toc_txt[1]) >= 3
    /\ SubSeq(folder.toc_txt[1], 1, 3) = <<"07", "CH 1-02 | Intro", "3 | Middle | N1, N2 ~">>
    /\ Len(toc) = 1
    /\ Len(toc[1].sections) = 1
    /\ toc[1].sections[1].page = "1-02-03"


\* The words of C22: the book a well-formed BOOK line sets, <<>> for any
\* other line.
C22_BookLine(t) ==
    IF ~isSkipped(t) /\ Len(t.words) >= 2 /\ upper(t.words[1]) = "BOOK"
       /\ AllDigits(t.words[2])
    THEN <<ToInt(t.words[2])>> ELSE <<>>

\* The words of C22: <<book, num>> of a well-formed CH line, book being <<>>
\* in the legacy form, and <<>> for any other line.
C22_ChLine(t) ==
    IF ~isSkipped(t) /\ Len(t.words) >= 2 /\ upper(t.words[1]) = "CH"
    THEN LET tok == t.words[2]
             bc == split(tok, "-")
         IN  IF AllDigits(tok) THEN <<<<>>, ToInt(tok)>>
             ELSE IF Len(bc) = 2 /\ AllDigits(bc[1]) /\ AllDigits(bc[2])
             THEN <<<<ToInt(bc[1])>>, ToInt(bc[2])>>
             ELSE <<>>
    ELSE <<>>

\* the refs of the accepted CH lines among lines[i..], in file order, the
\* book register being book before line i
RECURSIVE C22_Accepted(_, _, _)
C22_Accepted(lines, i, book) ==
    IF i > Len(lines) THEN <<>>
    ELSE LET t == tokens(lines[i])
             ch == C22_ChLine(t)
             b == IF ch # <<>> /\ ch[1] # <<>> THEN ch[1] ELSE book
         IN  IF C22_BookLine(t) # <<>>
             THEN C22_Accepted(lines, i + 1, C22_BookLine(t))
             ELSE IF ch # <<>> /\ b # <<>>
             THEN <<ToStr(b[1]) \o "-" \o padStart2(ToStr(ch[2]))>>
                      \o C22_Accepted(lines, i + 1, b)
             ELSE C22_Accepted(lines, i + 1, b)

\* C22: when the build has ended on a folder with a toc.txt, the parse has not
\* raised and its chapters are one per accepted CH line, in file order (equal
\* refs giving separate chapters); when no CH line is accepted and there is
\* no toc.json, the outline is null.
C22_OneChapterPerChLine ==
    (bpc \in {"done", "raised"} /\ folder.toc_txt # <<>>) =>
        LET accepted == C22_Accepted(folder.toc_txt[1], 1, <<>>)
        IN  /\ raised = ""
            /\ [k \in 1..Len(chapters) |-> chapters[k].ref] = accepted
            /\ (accepted = <<>> /\ folder.toc_json = <<>>)
                   => toc_source = "None"


\* ", ".join(items)
RECURSIVE C23_Join(_)
C23_Join(items) ==
    IF items = <<>> THEN ""
    ELSE IF Len(items) = 1 THEN items[1]
    ELSE items[1] \o ", " \o C23_Join(Tail(items))

\* The words of C23: the line `<page> | <name> | <lo, ...>` of a section of
\* the chapter with this ref.
C23_SectionLine(ref, sec) ==
    SubSeq(sec.page, Len(ref) + 2, Len(sec.page)) \o " | " \o sec.name \o " | "
        \o (IF "lo" \in DOMAIN sec THEN C23_Join(sec.lo) ELSE "")

\* The words of C23: the chapter list written in the primary grammar, one
\* `CH <book>-<chapter> | <name>` line per chapter followed by its section
\* lines.
RECURSIVE C23_Serialize(_)
C23_Serialize(chs) ==
    IF chs = <<>> THEN <<>>
    ELSE LET ch == Head(chs)
         IN  <<"CH " \o ch.ref \o " | " \o ch.name>>
                 \o [j \in 1..Len(ch.sections) |->
                        C23_SectionLine(ch.ref, ch.sections[j])]
                 \o C23_Serialize(Tail(chs))

\* C23: when parse_toc_txt has returned, parsing the serialized chapter list
\* again completes and yields a chapter list equal to the first one.
C23_ParseIsIdempotent ==
    bpc = "parsed" =>
        LET again == parse_toc_txt(C23_Serialize(chapters))
        IN  again.raised = "" /\ again.chapters = chapters

\* C23 happens: a parsed outline with a legacy chapter and sections with and
\* without learning outcomes, one named with a trailing flag character
C23_Witness ==
    /\ bpc = "parsed"
    /\ folder.toc_txt =
           << <<"BOOK 2 | Two", "ch 04 | Four !", "5 | Wow! |">> >>
    /\ chapters[1].ref = "2-04"
    /\ chapters[1].sections[1].name = "Wow!"
    /\ C23_Serialize(chapters) = <<"CH 2-04 | Four", "05 | Wow! | ">>


\* the nested chapters of a fallback source in document order across books,
\* each with the book node it is in
RECURSIVE C24_Nodes(_)
C24_Nodes(data) ==
    IF data = <<>> THEN <<>>
    ELSE LET book == Head(data)
             chs == IF "chapters" \in DOMAIN book THEN book.chapters ELSE <<>>
         IN  [i \in 1..Len(chs) |-> [book |-> book, ch |-> chs[i]]]
                 \o C24_Nodes(Tail(data))

\* the book number a chapter ref starts with
C24_BookOf(ref) == ToInt(SubSeq(ref, 1, Min(Positions(ref, "-")) - 1))

\* The fallback source that describes a chapter list: a book node for every
\* run of chapters of one book, the chapters with their number, name and
\* sections.
RECURSIVE C24_Nest(_)
C24_Nest(chs) ==
    IF chs = <<>> THEN <<>>
    ELSE LET ch == Head(chs)
             b == C24_BookOf(ch.ref)
             node == [number |-> ch.number, name |-> ch.name,
                      sections |-> ch.sections]
             rest == C24_Nest(Tail(chs))
         IN  IF rest # <<>> /\ rest[1].book = b
             THEN <<[rest[1] EXCEPT !.chapters = <<node>> \o @]>> \o Tail(rest)
             ELSE <<[book |-> b, chapters |-> <<node>>]>> \o rest

RECURSIVE C25_Runs(_)
C25_Runs(s) ==
    IF s = "" THEN <<>>
    ELSE LET kind == IsDigit(Char(s, 1))
             other == {i \in 1..Len(s) : IsDigit(Char(s, i)) # kind}
             n == IF other = {} THEN Len(s) ELSE Min(other) - 1
         IN  <<SubSeq(s, 1, n)>> \o C25_Runs(SubSeq(s, n + 1, Len(s)))

\* run x and run y are of one kind and x is the smaller
C25_RunLess(x, y) ==
    IF isdigit(x) /\ isdigit(y) THEN ToInt(x) < ToInt(y)
    ELSE IF ~isdigit(x) /\ ~isdigit(y) THEN strLess(lower(x), lower(y))
    ELSE FALSE

C25_RunSame(x, y) ==
    IF isdigit(x) /\ isdigit(y) THEN ToInt(x) = ToInt(y)
    ELSE lower(x) = lower(y)

\* name a is strictly before name b in natural order
C25_Before(a, b) ==
    LET ra == C25_Runs(a)
        rb == C25_Runs(b)
    IN  \E i \in 1..Len(rb) :
            /\ \A k \in 1..(i - 1) : k <= Len(ra) /\ C25_RunSame(ra[k], rb[k])
            /\ \/ i = Len(ra) + 1
               \/ i <= Len(ra) /\ C25_RunLess(ra[i], rb[i])

\* the directory find_images took the images from
C25_Chosen ==
    IF img_folder = "pages" THEN dirs.pages[1]
    ELSE IF img_folder = "webp" THEN dirs.webp[1]
    ELSE dirs.own[1]

C25_Eligible ==
    {C25_Chosen[i].name : i \in
        {k \in 1..Len(C25_Chosen) :
            /\ C25_Chosen[k].is_file
            /\ lower(suffix(C25_Chosen[k].name)) \in IMG_EXTENSIONS}}

C25_NaturalOrder ==
    bpc \in {"found", "written"} =>
        /\ {images[i] : i \in 1..Len(images)} = C25_Eligible
        /\ Len(images) = Cardinality(C25_Eligible)
        /\ \A i, j \in 1..Len(images) :
               i < j => ~C25_Before(images[j], images[i])
        /\ bpc = "written" =>
               /\ Len(index_html[1].pages) = Len(images)
               /\ \A i \in 1..Len(images) :
                      /\ index_html[1].pages[i] =
                             (IF img_folder = "" THEN "" ELSE img_folder \o "/")
                                 \o images[i]
                      /\ index_html[1].pageMap[Stem(images[i])] = i - 1

\* the listing of the claim has been sorted
C25_Witness ==
    /\ bpc = "written"
    /\ dirs.pages =
           << <<File("2-9-1.webp"), File("2-10-1.webp"), File("2-2-1.webp")>> >>
    /\ images = <<"2-2-1.webp", "2-9-1.webp", "2-10-1.webp">>


(***************************************************************************)
(* C26: for book >= 1 and chapter, page in 1..99 parseRef(makeRef(b, c, p))*)
(* is (b, c, p); makeRef is injective (two calls with different arguments  *)
(* return different strings); makeRef(3, 4, 25) is "3-04-25"; parseRef     *)
(* returns null for every string that is not digits-digits-digits, such as *)
(* "not-a-ref".                                                            *)
(***************************************************************************)
\* s is three runs of digits with a hyphen between them
C26_Grammar(s) ==
    \E d1, d2 \in 1..Len(s) :
        /\ d1 < d2
        /\ Char(s, d1) = "-"
        /\ Char(s, d2) = "-"
        /\ \A i \in 1..Len(s) : i \notin {d1, d2} => IsDigit(Char(s, i))
        /\ 1 < d1
        /\ d1 + 1 < d2
        /\ d2 < Len(s)

C26_InClaim(arg) ==
    arg[1] >= 1 /\ arg[2] \in 1..99 /\ arg[3] \in 1..99

C26_Codec ==
    /\ [](last.op = "makeRef" /\ last.arg = <<3, 4, 25>>
              => last.load = <<"3-04-25">>)
    /\ [](last.op = "parseRef" /\ ~C26_Grammar(last.arg[1])
              => last.load = <<NoRef>>)
    /\ [](last.op = "parseRef" /\ last.arg = <<"3-04-25">>
              => /\ last.load[1].ok
                 /\ last.load[1].book = 3
                 /\ last.load[1].chapter = 4
                 /\ last.load[1].page = 25)
    /\ [][last.op = "makeRef" /\ C26_InClaim(last.arg) /\ last'.op = "parseRef"
              /\ last'.arg = last.load
            => /\ last'.load[1].ok
               /\ <<last'.load[1].book, last'.load[1].chapter,
                    last'.load[1].page>> = last.arg]_vars
    /\ [][last.op = "makeRef" /\ last'.op = "makeRef" /\ last.arg # last'.arg
              /\ C26_InClaim(last.arg) /\ C26_InClaim(last'.arg)
            => last.load # last'.load]_vars

\* a reference of a one-digit chapter has been made and parsed back
C26_Witness ==
    /\ last.op = "parseRef"
    /\ last.arg = <<"3-04-25">>
    /\ last.load[1].ok

\* null has been returned for a string outside the grammar
C26_WitnessNull ==
    /\ last.op = "parseRef"
    /\ last.arg = <<"not-a-ref">>
    /\ last.load = <<NoRef>>


(***************************************************************************)
(* C27: in the written artifact every eligible file is in pages exactly    *)
(* once, and pageMap has an entry exactly for the files whose stem parses  *)
(* as a reference, mapping it to the index of the file in pages; a file    *)
(* whose stem does not parse is in pages and has no entry in pageMap.      *)
(***************************************************************************)
C27_Decodes(name) == parseRef(Stem(name)).ok

C27_ReferenceIndex ==
    bpc = "written" =>
        LET config == index_html[1]
            n == Len(images)
        IN  /\ Len(config.pages) = Cardinality(C25_Eligible)
            /\ \A f \in C25_Eligible :
                   Cardinality({i \in 1..n : images[i] = f}) = 1
            /\ DOMAIN config.pageMap =
                   {Stem(images[i]) : i \in {k \in 1..n : C27_Decodes(images[k])}}
            /\ \A i \in 1..n :
                   C27_Decodes(images[i]) =>
                       config.pageMap[Stem(images[i])] = i - 1

\* the part of C27 the build keeps: pages lists every eligible file once and
\* a stem that parses as a reference is mapped to its index
C27_Kept ==
    bpc = "written" =>
        LET config == index_html[1]
            n == Len(images)
        IN  /\ Len(config.pages) = Cardinality(C25_Eligible)
            /\ \A f \in C25_Eligible :
                   Cardinality({i \in 1..n : images[i] = f}) = 1
            /\ \A i \in 1..n :
                   C27_Decodes(images[i]) =>
                       /\ Stem(images[i]) \in DOMAIN config.pageMap
                       /\ config.pageMap[Stem(images[i])] = i - 1


(***************************************************************************)
(* C28: when none of pages/, webp/ and the folder itself holds an eligible *)
(* image, build returns False and index.html is not written; index.html is *)
(* written only once a non-empty page list and the result of load_toc are  *)
(* there, and holds both.                                                  *)
(***************************************************************************)
C28_HasImage(listing) ==
    \E i \in 1..Len(listing) :
        /\ listing[i].is_file
        /\ lower(suffix(listing[i].name)) \in IMG_EXTENSIONS

C28_NoEligibleImages ==
    /\ dirs.pages # <<>> => ~C28_HasImage(dirs.pages[1])
    /\ dirs.webp # <<>> => ~C28_HasImage(dirs.webp[1])
    /\ ~C28_HasImage(dirs.own[1])

C28_NoPartialArtifact ==
    /\ C28_NoEligibleImages =>
           /\ index_html = <<>>
           /\ bpc \in {"build", "found", "failed"}
           /\ bpc = "failed" => returned = "False"
           /\ returned \in {"", "False"}
    /\ index_html # <<>> =>
           /\ bpc = "written"
           /\ returned = "True"
           /\ images # <<>>
           /\ raised = ""
           /\ load_toc(chapters, folder) = <<toc, toc_source>>
           /\ index_html[1].pages # <<>>
           /\ Len(index_html[1].pages) = Len(images)
           /\ index_html[1].toc = toc
    /\ bpc \in {"failed", "raised"} => index_html = <<>>

\* pages/ exists and has entries, none an image: the build has failed
C28_Witness ==
    /\ bpc = "failed"
    /\ returned = "False"
    /\ dirs.pages # <<>>
    /\ Len(dirs.pages[1]) = 2
    /\ dirs.webp # <<>>
    /\ index_html = <<>>

\* an artifact has been written
C28_WitnessWritten ==
    /\ bpc = "written"
    /\ toc # <<>>
    /\ index_html # <<>>


(***************************************************************************)
(* C29: end to end.  For the catalog 1-01-01.webp .. 1-01-05.webp with the *)
(* outline CH 1-01 | Intro and the section 03 | Middle, the written        *)
(* document model has pageMap["1-01-03"] = 2, and after loadPage(2) the    *)
(* breadcrumb shows the chapter label and the page label p.3 and the       *)
(* highlighted section is Middle.  The chapter label is "Ch1: Intro"; the  *)
(* statement with the bare name "Intro" is C29_EndToEndBareName.           *)
(***************************************************************************)
C29_Example ==
    /\ {dirs.pages[1][i].name : i \in 1..Len(dirs.pages[1])} =
           {"1-01-01.webp", "1-01-02.webp", "1-01-03.webp", "1-01-04.webp",
            "1-01-05.webp"}
    /\ folder.toc_txt = << <<"CH 1-01 | Intro", "03 | Middle">> >>

C29_Loaded2 == pc = "run" /\ last.op = "loadPage" /\ last.arg = <<2>>

\* the names of the sections that carry the class 'active'
C29_Highlighted == {index_html[1].toc[el[1]].sections[el[2]].name : el \in active}

C29_Model ==
    /\ index_html[1].pages =
           <<"pages/1-01-01.webp", "pages/1-01-02.webp", "pages/1-01-03.webp",
             "pages/1-01-04.webp", "pages/1-01-05.webp">>
    /\ index_html[1].pageMap["1-01-03"] = 2
    /\ Len(index_html[1].toc) = 1
    /\ index_html[1].toc[1].name = "Intro"

C30_OneRevealTimer ==
    /\ Cardinality(timers) <= 1
    /\ timers \subseteq {uiTimeout}

\* a tap in clean mode while the chrome was revealed by an earlier tap: the
\* earlier timer is gone and the new one is pending
C30_Witness ==
    /\ last.op = "tap"
    /\ last.arg = <<"degraded", TRUE>>
    /\ Cardinality(timers) = 1
    /\ uiTimeout \in timers


(***************************************************************************)
(* C31: when no section of the chapter of the current page has its page at *)
(* or before the current page, no section is highlighted, on every         *)
(* outline, also one with section pageRefs that are not in pageMap (such a *)
(* section has no page in the catalog).                                    *)
(***************************************************************************)
\* the sections <<k, j>> of the chapter of the current page whose page is in
\* the catalog at or before the current page
C31_AtOrBefore ==
    LET p == parseRef(getRef(CONFIG, state.page))
    IN  {el \in {<<k, j>> : k \in 1..Len(CONFIG.toc), j \in 1..4} :
            /\ p.ok
            /\ CONFIG.toc[el[1]].ref = chRef(p)
            /\ el[2] <= Len(CONFIG.toc[el[1]].sections)
            /\ CONFIG.toc[el[1]].sections[el[2]].page \in DOMAIN CONFIG.pageMap
            /\ CONFIG.pageMap[CONFIG.toc[el[1]].sections[el[2]].page] <= state.page}

C31_OnPage == pc = "run" /\ state.page \in 0..(NumPages - 1)

C31_NoHighlightBeforeFirst ==
    (C31_OnPage /\ C31_AtOrBefore = {}) => active = {}

\* every section pageRef of the outline is in pageMap
C31_AllResolve ==
    \A k \in 1..Len(CONFIG.toc) :
        \A j \in 1..Len(CONFIG.toc[k].sections) :
            CONFIG.toc[k].sections[j].page \in DOMAIN CONFIG.pageMap

\* the same on the outlines whose section pageRefs all resolve
C31_NoHighlightBeforeFirstResolved ==
    (C31_OnPage /\ C31_AllResolve /\ C31_AtOrBefore = {}) => active = {}

\* a page before the first section of its chapter, in an outline that resolves
C31_WitnessResolved ==
    /\ pc = "run"
    /\ cfg = 1
    /\ state.page = 1
    /\ C31_AtOrBefore = {}
    /\ active = {}


(***************************************************************************)
(* C32: the page count of the breadcrumb ('/ n') is the number of pages of *)
(* the catalog whose reference parses to the book and chapter of the       *)
(* current page, on every catalog: several books, books of two digits,     *)
(* unpadded stems, stems that do not parse.                                *)
(***************************************************************************)
\* pages of the catalog in the book and chapter of the current page
C32_SameChapter ==
    LET p == parseRef(getRef(CONFIG, state.page))
    IN  {i \in 0..(NumPages - 1) :
            LET q == parseRef(getRef(CONFIG, i))
            IN  q.ok /\ q.book = p.book /\ q.chapter = p.chapter}

C32_ChapterPageCount ==
    (C31_OnPage /\ parseRef(getRef(CONFIG, state.page)).ok) =>
        breadcrumb.pt = "/ " \o ToStr(Cardinality(C32_SameChapter))

\* the catalogs in which every stem is a padded reference of a one-digit book
C32_PlainCatalog ==
    \A i \in 0..(NumPages - 1) :
        LET q == parseRef(getRef(CONFIG, i))
        IN  q.ok /\ q.book < 10 /\ getRef(CONFIG, i) = makeRef(q.book, q.chapter, q.page)

\* the same on plain catalogs
C32_ChapterPageCountPlain ==
    (C31_OnPage /\ C32_PlainCatalog) =>
        breadcrumb.pt = "/ " \o ToStr(Cardinality(C32_SameChapter))

C32_WitnessPlain ==
    /\ C31_OnPage
    /\ cfg = 3
    /\ state.page = 5
    /\ breadcrumb.pt = "/ 2"


(***************************************************************************)
(* C33: the current-book register of parse_toc_txt persists until it is    *)
(* overwritten.  It is never cleared once set; it changes only at a        *)
(* BOOK <n> line (to n) and at a CH <book>-<num> line (to book), and every *)
(* such line sets it; a legacy CH <num> line leaves it as it is and opens  *)
(* its chapter under it, so under the value of the latest BOOK or          *)
(* CH <book>-<num> line before it; every chapter that is opened has        *)
(* ref = book '-' 2-digit number and tocAnchor = ref '-01'.                *)
(***************************************************************************)
\* <<b>> when line t is CH <book>-<num> with book b, else <<>>
C33_ChBook(t) ==
    IF C22_ChLine(t) # <<>> THEN C22_ChLine(t)[1] ELSE <<>>

\* <<n>> when line t sets the register to n, else <<>>
C33_Sets(t) ==
    IF C22_BookLine(t) # <<>> THEN C22_BookLine(t) ELSE C33_ChBook(t)

C33_RegisterPersists ==
    [][/\ cur_book # <<>> => cur_book' # <<>>
       /\ cur_book' # cur_book =>
              InLoop /\ C33_Sets(NextLine) = cur_book'
       /\ (InLoop /\ C33_Sets(NextLine) # <<>>) =>
              cur_book' = C33_Sets(NextLine)
       /\ (InLoop /\ C20_LegacyCh(NextLine) /\ cur_book # <<>>) =>
              /\ cur_book' = cur_book
              /\ Len(chapters') = Len(chapters) + 1
              /\ chapters'[Len(chapters')].ref =
                     ToStr(cur_book[1]) \o "-"
                         \o padStart2(ToStr(ToInt(NextLine.words[2])))
       /\ \A k \in 1..Len(chapters') :
              k > Len(chapters) =>
                  /\ cur_book' # <<>>
                  /\ chapters'[k].ref =
                         ToStr(cur_book'[1]) \o "-"
                             \o padStart2(ToStr(chapters'[k].number))
                  /\ chapters'[k].toc = chapters'[k].ref \o "-01"]_vars

\* BOOK 2, then CH 1-02, then the legacy ch 04: the chapter is 1-04
C33_Witness ==
    /\ bpc = "done"
    /\ folder.toc_txt = << <<"BOOK 2 | Two", "CH 1-02 | Intro", "ch 04 | Four !">> >>
    /\ cur_book = <<1>>
    /\ Len(chapters) = 2
    /\ chapters[2].ref = "1-04"
    /\ chapters[2].toc = "1-04-01"


(***************************************************************************)
(* C34: a keydown of ArrowLeft / ArrowRight without Ctrl/Meta, at zoom > 1,*)
(* pans by +50 / -50 horizontally and leaves the page (and zoom, fit mode, *)
(* vertical pan) as they are; at zoom <= 1 it is loadPage of the previous  *)
(* / next page; with Ctrl/Meta it is loadPage at every zoom.  No key event *)
(* both pans and changes the page.                                         *)
(***************************************************************************)
C34_ArrowKey(ev) ==
    ev.op = "keydown" /\ ev.arg[1] \in {"ArrowLeft", "ArrowRight"}

\* what loadPage(idx) makes of the state
C34_Loaded(idx) ==
    IF idx \in 0..(NumPages - 1)
    THEN [state EXCEPT !.page = idx, !.zoom = One, !.translateX = 0,
                       !.translateY = 0]
    ELSE state

C34_ArrowKeys ==
    [][C34_ArrowKey(last') =>
          LET left == last'.arg[1] = "ArrowLeft"
              ctrl == last'.arg[2]
              idx == IF left THEN state.page - 1 ELSE state.page + 1
          IN  /\ (~ctrl /\ dLess(One, state.zoom)) =>
                     state' = [state EXCEPT !.translateX =
                                   IF left THEN @ + 50 ELSE @ - 50]
              /\ (ctrl \/ ~dLess(One, state.zoom)) =>
                     state' = C34_Loaded(idx)
              /\ state'.page # state.page =>
                     /\ state'.translateX = 0
                     /\ state'.translateY = 0
                     /\ ctrl \/ ~dLess(One, state.zoom)]_vars

\* the image has been panned by ArrowLeft while zoomed
C34_Witness ==
    /\ C34_ArrowKey(last)
    /\ last.arg = <<"ArrowLeft", FALSE>>
    /\ dLess(One, state.zoom)
    /\ state.translateX = 50

\* Ctrl+ArrowRight on a zoomed image has loaded the next page
C34_WitnessCtrl ==
    /\ C34_ArrowKey(last)
    /\ last.arg = <<"ArrowRight", TRUE>>
    /\ last.load = <<1>>
    /\ state.page = 1
    /\ state.zoom = One


(***************************************************************************)
(* C35: liveness of the reveal window.  With the event loop running the    *)
(* callbacks of pending timers, a revealed chrome is hidden again in the   *)
(* end unless taps in immersive mode go on for ever: no reveal lasts for   *)
(* ever without new taps.                                                  *)
(***************************************************************************)
C35_RevealEnds ==
    \/ []<><<Tap /\ isImmersive>>_vars
    \/ (ChromeRevealed ~> ~ChromeRevealed)

\* the timer of a tap has fired in immersive mode and the chrome is hidden
C35_Witness ==
    /\ last.op = "timer"
    /\ last.arg = <<uiTimeout>>
    /\ isImmersive
    /\ ~ChromeRevealed
    /\ timers = {}


(***************************************************************************)
(* C36: in every state after startup, from any blob in the store (also one *)
(* whose zoom is outside the limits) and after any sequence of loadPage,   *)
(* setFitMode, zoom, pan and the zoom reset, .25 <= state.zoom <= 5.       *)
(***************************************************************************)
C36_ZoomInRange ==
    pc = "run" => ~dLess(state.zoom, Quarter) /\ ~dLess(Five, state.zoom)

\* zoom-in at the upper limit: the sum is cut to 5
C36_Witness ==
    /\ pc = "run"
    /\ last.op = "zoom"
    /\ last.arg = <<Plus15>>
    /\ state.zoom = Five

\* zoom-out at the lower limit
C36_WitnessLow ==
    /\ pc = "run"
    /\ last.op = "zoom"
    /\ last.arg = <<Minus15>>
    /\ state.zoom = Quarter

\* startup from a blob with page 7 and a zoom of 7 or .1
C36_WitnessBlob ==
    /\ pc = "run"
    /\ last.op = "init"
    /\ state.page = 7
    /\ state.zoom = One


\* the current index names a page of the catalog
C37_InRange(st) == st.page \in 0..(NumPages - 1)

(***************************************************************************)
(* C37: in every state after startup, for any blob in the store and any    *)
(* deep-link token, and after any sequence of navigation events,           *)
(* 0 <= state.page < pages.length.                                         *)
(***************************************************************************)
C37_IndexInRange == pc = "run" => C37_InRange(state)

\* C37, the part the handlers keep: an event of the running viewer that
\* starts with the index in range ends with the index in range.
C37_InRangeKept ==
    [][pc = "run" /\ C37_InRange(state) => C37_InRange(state')]_vars

\* a page input, a hash change or a key moved the index of a running viewer
C37_WitnessKept ==
    /\ pc = "run"
    /\ last.op \notin {"boot", "init", "none"}
    /\ last.load # <<>>
    /\ C37_InRange(state)
    /\ state.page = NumPages - 1


\* C38, first part: native fullscreen and the clean mode are not both active
C38_NeverBoth == ~(fsElement /\ cleanMode)

\* C38, second part: one toggle from an immersive state returns the viewer to
\* off: a toggle in clean mode leaves it at once, and the exit from native
\* fullscreen that a toggle asks for ends with the viewer off.
C38_ToggleReturnsToOff ==
    [][/\ (last'.op = "toggleFullscreen" /\ ~isFullscreen /\ isCleanMode) =>
             ~isImmersive'
       /\ last'.op = "fullscreenExit" => ~isImmersive']_vars

(***************************************************************************)
(* C38: under every interleaving of toggles with the acceptance or         *)
(* rejection of the native fullscreen requests, also with a second toggle  *)
(* while an earlier request is pending, native fullscreen and the clean    *)
(* mode are never active together, and one toggle from any immersive state *)
(* returns the viewer to off.                                              *)
(***************************************************************************)
C38_ImmersiveModesExclusive == []C38_NeverBoth /\ C38_ToggleReturnsToOff

\* C38 with one request at a time: while no request is pending next to
\* another one, the two modes exclude each other.
C38_OneRequestAtATime ==
    [][(C38_NeverBoth /\ pendingReq + (IF isImmersive THEN 1 ELSE 0) <= 1) =>
          C38_NeverBoth']_vars


\* a blob as saveState() writes it after a reset of zoom and pan
C39_ResetBlob(b) ==
    /\ b # NoBlob
    /\ b.zoom = One
    /\ b.translateX = 0
    /\ b.translateY = 0

=============================================================================
